---- MODULE Spec2Model ----
(***************************************************************************)
(* A model of promptorium's storage and versioning engine                  *)
(* (src/promptorium/storage/fs.py, FileSystemPromptStorage).               *)
(*                                                                         *)
(* The persisted state is a small file system: the metadata document       *)
(* (.prompts/_meta.json), the version files, the source files and the set  *)
(* of existing directories.  Every public operation of the engine is one   *)
(* action that performs the whole handler.  A file-system call that can    *)
(* raise (an atomic write, an unlink, a mkdir) is a fault point: the       *)
(* action takes the fault point at which the call raises as an input, and  *)
(* performs exactly the steps the handler has completed before it.  A      *)
(* third specification runs the version-creating calls in two processes,   *)
(* one file-system step at a time.  Three more specifications cover a      *)
(* source file kept inside its version directory (SpecOverlap), the diff   *)
(* of two versions (SpecDiff; the diff builder follows section 4.6 of the  *)
(* specification, its source not being part of the sources) and the        *)
(* schema-1-to-2 migration of migration.py (SpecMigrate).                  *)
(*                                                                         *)
(* Paths are sequences of components and a component is a sequence of      *)
(* one-character tokens (plus the token ".md"), so that file names are     *)
(* really built and really parsed.  Texts are sequences of characters.     *)
(*                                                                         *)
(* Environment assumptions: source files live in <repo>/prompts, outside   *)
(* every version directory (except in SpecOverlap); nobody but the engine  *)
(* and the migration writes version files or                               *)
(* the metadata document, except that the repository may hold the layout   *)
(* of a schema-1 engine at the start; the user may edit or remove a source *)
(* file at any time; no path is a symbolic link.  SHA-256 is taken to be   *)
(* collision free.                                                         *)
(***************************************************************************)
EXTENDS Integers, Sequences, FiniteSets, TLC

----------------------------------------------------------------------------
(* Bounds *)

\* the number of calls and user edits a behaviour is followed for; it also
\* bounds the version numbers, since a call creates at most one version per key
MaxCalls == 4
\* the number of steps a behaviour in which file-system calls may fail is followed for
MaxFaultCalls == 3
\* the number of calls two processes make together when their steps interleave
MaxRaceCalls == 3
\* the longest text a version of the diff specification holds
MaxTextLen == 3
\* diff_versions calls of a behaviour of the diff specification
MaxDiffCalls == 1
\* calls of a behaviour of the migration specification
MaxMigrateCalls == 3

----------------------------------------------------------------------------
(* Program constants and value domains *)

_SCHEMA_VERSION == 2

\* Python's None where an int is expected (SyncResult.old_version, version)
NoVersion == 0 - 1
\* Python's None for last_hash / a text that was not produced
NoHash == <<>>
NoText == <<"<none>">>
\* what files holds for a path at which there is no file
Absent == <<"<absent>">>
NoKey == <<>>
NoPath == <<>>

\* the texts the source files and the callers hold: "" and "x"
EmptyContent == <<>>
Contents == {EmptyContent, <<"x">>}

\* the keys the callers use; "a" is a proper prefix of "a-1"
Keys == {<<"a">>, <<"a", "-", "1">>}

DigitChars == <<"0", "1", "2", "3", "4", "5", "6", "7", "8", "9">>
DigitSet == {DigitChars[i] : i \in 1..10}

\* str(n) for n >= 0, as in the f-strings of _version_path
RECURSIVE IntToStr(_)
IntToStr(n) ==
    IF n < 10 THEN <<DigitChars[n + 1]>>
    ELSE IntToStr(n \div 10) \o <<DigitChars[(n % 10) + 1]>>

DigitValue(c) == (CHOOSE i \in 1..10 : DigitChars[i] = c) - 1

\* int(s) for a string of decimal digits
RECURSIVE StrToInt(_)
StrToInt(s) ==
    IF Len(s) = 0 THEN 0
    ELSE 10 * StrToInt(SubSeq(s, 1, Len(s) - 1)) + DigitValue(s[Len(s)])

\* the regular expression \d+
IsDigits(s) == Len(s) > 0 /\ \A i \in 1..Len(s) : s[i] \in DigitSet

IsPrefix(p, q) == Len(p) <= Len(q) /\ SubSeq(q, 1, Len(p)) = p

----------------------------------------------------------------------------
(* Paths *)

repo_root == << <<"repo">> >>
root == repo_root \o << <<".prompts">> >>
_meta_path == root \o << <<"_meta.json">> >>

Parent(p) == SubSeq(p, 1, Len(p) - 1)
Name(p) == p[Len(p)]

SourceDir == repo_root \o << <<"prompts">> >>
SourcePath(i) == SourceDir \o << <<"s">> \o IntToStr(i) \o <<".md">> >>
SourceFiles == {SourcePath(1), SourcePath(2)}

CustomDir == repo_root \o << <<"versions">> >>

_default_version_dir(key) == root \o <<key>>

\* the version_dir arguments the callers pass to track (NoPath is None)
VersionDirArgs == {NoPath, CustomDir} \cup {_default_version_dir(k) : k \in Keys}
VersionDirs == VersionDirArgs \ {NoPath}

\* _store_path: relative to repo_root when possible, otherwise absolute
_store_path(path) ==
    IF IsPrefix(repo_root, path)
    THEN [abs |-> FALSE, parts |-> SubSeq(path, Len(repo_root) + 1, Len(path))]
    ELSE [abs |-> TRUE, parts |-> path]

_resolve_path(value) ==
    IF value.abs THEN value.parts ELSE repo_root \o value.parts

\* a test that takes no directory for one of the private root
_is_managed_by_root_never(version_dir) == FALSE

\* _is_managed_by_root: version_dir is root or a path below it
_is_managed_by_root(version_dir) == IsPrefix(root, version_dir)

_compute_hash(content) == <<"sha256:">> \o content

----------------------------------------------------------------------------
(* State *)

VARIABLES
    files,       \* the regular files other than the metadata document: path -> text or Absent
    dirs,        \* the directories that exist
    meta,        \* the metadata document on disk (.prompts/_meta.json)
    res,         \* what the last call returned or raised, with the locals the claims observe
    maxCreated,  \* history: per key, the highest version number created since it was tracked
    calls,       \* history: the number of steps taken so far
    procs        \* per process, the position and the locals of the call it is in

vars == <<files, dirs, meta, res, maxCreated, calls, procs>>

St == [files |-> files, dirs |-> dirs, meta |-> meta]

Exists(st, path) == st.files[path] # Absent

\* every directory on the way to p, p included (mkdir(parents=True))
Ancestors(p) == {SubSeq(p, 1, i) : i \in 1..Len(p)}

----------------------------------------------------------------------------
(* Fault points: the file-system call of a handler that raises OSError *)

NoFault == [point |-> "none", at |-> 0]
FaultAt(point, i) == [point |-> point, at |-> i]

----------------------------------------------------------------------------
(* The metadata document *)

NoMetaFile == [exists |-> FALSE, schema |-> 0, prompts |-> <<>>]

_PromptConfig(key, source_file, version_dir, last_hash, last_version) ==
    [key |-> key, source_file |-> source_file, version_dir |-> version_dir,
     last_hash |-> last_hash, last_version |-> last_version]

\* meta.prompts is a dict: a sequence of records in insertion order
HasKey(prompts, key) == \E i \in 1..Len(prompts) : prompts[i].key = key
IndexOf(prompts, key) == CHOOSE i \in 1..Len(prompts) : prompts[i].key = key
CfgOf(prompts, key) == prompts[IndexOf(prompts, key)]
\* meta.prompts[key] = cfg
SetCfg(prompts, cfg) ==
    IF HasKey(prompts, cfg.key)
    THEN [prompts EXCEPT ![IndexOf(prompts, cfg.key)] = cfg]
    ELSE Append(prompts, cfg)
\* del meta.prompts[key]
DelCfg(prompts, key) ==
    LET i == IndexOf(prompts, key)
    IN SubSeq(prompts, 1, i - 1) \o SubSeq(prompts, i + 1, Len(prompts))

\* a document written by the schema-1 engine: _load_meta reads its schema only
LegacyMeta == [exists |-> TRUE, schema |-> _SCHEMA_VERSION - 1, prompts |-> <<>>]

\* a _load_meta that takes a document of any schema
_load_meta_any_schema(st) ==
    IF ~st.meta.exists
    THEN [ok |-> TRUE, schema |-> _SCHEMA_VERSION, prompts |-> <<>>]
    ELSE [ok |-> TRUE, schema |-> st.meta.schema, prompts |-> st.meta.prompts]

\* _load_meta: an absent document is an empty one; a schema mismatch raises
_load_meta(st) ==
    IF ~st.meta.exists
    THEN [ok |-> TRUE, schema |-> _SCHEMA_VERSION, prompts |-> <<>>]
    ELSE IF st.meta.schema # _SCHEMA_VERSION
    THEN [ok |-> FALSE, schema |-> st.meta.schema, prompts |-> <<>>]
    ELSE [ok |-> TRUE, schema |-> st.meta.schema, prompts |-> st.meta.prompts]

\* atomic_write_text(path, content) on a regular file: creates the parent
\* directories, then the file holds exactly content
atomic_write_text(st, path, content) ==
    [st EXCEPT !.files[path] = content,
               !.dirs = st.dirs \cup Ancestors(Parent(path))]

\* a save that keeps the records the document on disk holds for other keys
_save_meta_merging(st, schema, prompts) ==
    LET kept == SelectSeq(st.meta.prompts, LAMBDA c : ~HasKey(prompts, c.key))
    IN [st EXCEPT !.meta = [exists |-> TRUE, schema |-> schema, prompts |-> kept \o prompts],
                  !.dirs = st.dirs \cup Ancestors(root)]

\* _save_meta: the whole document is rewritten through atomic_write_text
_save_meta(st, schema, prompts) ==
    [st EXCEPT !.meta = [exists |-> TRUE, schema |-> schema, prompts |-> prompts],
               !.dirs = st.dirs \cup Ancestors(root)]

\* Path.unlink(missing_ok=False) on an existing file
unlink(st, path) == [st EXCEPT !.files[path] = Absent]

\* Path.mkdir(parents=True, exist_ok=True)
mkdir(st, path) == [st EXCEPT !.dirs = st.dirs \cup Ancestors(path)]

\* Path.rmdir(): removes the directory only when it is empty
DirIsEmpty(st, d) ==
    /\ \A p \in DOMAIN st.files : Exists(st, p) => Parent(p) # d
    /\ \A e \in st.dirs : Len(e) = 0 \/ Parent(e) # d
    /\ ~(d = root /\ st.meta.exists)

\* a removal that leaves the directory in place
rmdir_noop(st, d) == st

rmdir(st, d) ==
    IF d \in st.dirs /\ DirIsEmpty(st, d)
    THEN [st EXCEPT !.dirs = st.dirs \ {d}]
    ELSE st

----------------------------------------------------------------------------
(* Version-file naming scheme *)

\* a naming scheme that always names the file <version_dir>/<key>-<n>.md
_version_path_custom_only(key, version, version_dir, managed_by_root) ==
    version_dir \o << key \o <<"-">> \o IntToStr(version) \o <<".md">> >>

\* a naming scheme that leaves the version number out of the file name
_version_path_unnumbered(key, version, version_dir, managed_by_root) ==
    IF managed_by_root
    THEN version_dir \o << IntToStr(1) \o <<".md">> >>
    ELSE version_dir \o << key \o <<"-">> \o IntToStr(1) \o <<".md">> >>

\* _version_path: <version_dir>/<n>.md when root-managed, else <version_dir>/<key>-<n>.md
_version_path(key, version, version_dir, managed_by_root) ==
    IF managed_by_root
    THEN version_dir \o << IntToStr(version) \o <<".md">> >>
    ELSE version_dir \o << key \o <<"-">> \o IntToStr(version) \o <<".md">> >>

\* the stem of a file name ending in ".md"
Stem(name) == SubSeq(name, 1, Len(name) - 1)

\* re.fullmatch(r"\d+\.md", name)
MatchesManaged(name) ==
    /\ Len(name) >= 2
    /\ name[Len(name)] = ".md"
    /\ IsDigits(Stem(name))

\* a pattern that takes every <key>-....md for a version of key
MatchesCustom_any_suffix(key, name) ==
    /\ Len(name) >= Len(key) + 3
    /\ name[Len(name)] = ".md"
    /\ IsPrefix(key \o <<"-">>, name)

\* re.compile(rf"^{re.escape(key)}-(\d+)\.md$").fullmatch(name)
MatchesCustom(key, name) ==
    /\ Len(name) >= Len(key) + 3
    /\ name[Len(name)] = ".md"
    /\ IsPrefix(key \o <<"-">>, name)
    /\ IsDigits(SubSeq(name, Len(key) + 2, Len(name) - 1))

\* the number a matching name carries: int(p.stem) or int(m.group(1))
VersionOfName(key, managed_by_root, name) ==
    IF managed_by_root
    THEN StrToInt(Stem(name))
    ELSE StrToInt(SubSeq(name, Len(key) + 2, Len(name) - 1))

\* a sort that puts the highest version first
RECURSIVE SortPairs_descending(_)
SortPairs_descending(S) ==
    IF S = {} THEN <<>>
    ELSE LET m == CHOOSE x \in S : \A y \in S : x[1] >= y[1]
         IN <<m>> \o SortPairs_descending(S \ {m})

\* versions.sort(key=lambda t: t[0]) on the pairs found
RECURSIVE SortPairs(_)
SortPairs(S) ==
    IF S = {} THEN <<>>
    ELSE LET m == CHOOSE x \in S : \A y \in S : x[1] <= y[1]
         IN <<m>> \o SortPairs(S \ {m})

\* _scan_versions: the (version, path) pairs of the directory, ascending
_scan_versions(st, key, version_dir, managed_by_root) ==
    IF version_dir \notin st.dirs THEN <<>>
    ELSE LET found == {p \in DOMAIN st.files :
                          /\ Exists(st, p)
                          /\ Parent(p) = version_dir
                          /\ IF managed_by_root THEN MatchesManaged(Name(p))
                                                ELSE MatchesCustom(key, Name(p))}
         IN SortPairs({<<VersionOfName(key, managed_by_root, Name(p)), p>> : p \in found})

\* a numbering that hands out the highest version of the scan again
_next_version_highest(st, key, version_dir, managed_by_root) ==
    LET pairs == _scan_versions(st, key, version_dir, managed_by_root)
    IN IF Len(pairs) > 0 THEN pairs[Len(pairs)][1] ELSE 1

\* a numbering that ignores the scan
_next_version_first(st, key, version_dir, managed_by_root) == 1

\* _next_version: one more than the highest version of the scan, 1 without any
_next_version(st, key, version_dir, managed_by_root) ==
    LET pairs == _scan_versions(st, key, version_dir, managed_by_root)
    IN IF Len(pairs) > 0 THEN pairs[Len(pairs)][1] + 1 ELSE 1

----------------------------------------------------------------------------
(* What a call returns *)

NoRef == [key |-> NoKey, source_file |-> NoPath, version_dir |-> NoPath,
          managed_by_root |-> FALSE]

PromptRef(key, source_file, version_dir, managed_by_root) ==
    [key |-> key, source_file |-> source_file, version_dir |-> version_dir,
     managed_by_root |-> managed_by_root]

\* SyncResult; message is kept as its kind: "unchanged", "synced" or "error"
SyncResult(key, changed, old_version, new_version, message) ==
    [key |-> key, changed |-> changed, old_version |-> old_version,
     new_version |-> new_version, message |-> message]

PromptVersion(key, version, path) == [key |-> key, version |-> version, path |-> path]

PromptInfo(ref, versions) == [ref |-> ref, versions |-> versions]

\* The record of a call.  status is "ok" or the exception raised; version is
\* the number of the version the call created, removed or read; asked is the
\* version argument of read_version; content is the text the call read from
\* the source file (track, sync), was given (write_new_version) or returned
\* (read_version); service tells a call made through PromptService; v1, v2,
\* granularity and segments are the arguments and the result of diff_versions.
Result(op, key) ==
    [op |-> op, key |-> key, status |-> "ok", fault |-> "none", force |-> FALSE,
     service |-> FALSE,
     v1 |-> NoVersion, v2 |-> NoVersion, granularity |-> "", segments |-> <<>>,
     keep_versions |-> TRUE, asked |-> NoVersion,
     ref |-> NoRef, version |-> NoVersion, path |-> NoPath,
     changed |-> FALSE, old_version |-> NoVersion, new_version |-> NoVersion,
     content |-> NoText, count |-> 0, results |-> <<>>, infos |-> <<>>]

Raise(r, status) == [r EXCEPT !.status = status]
RaiseOSError(r, fault) == [r EXCEPT !.status = "OSError", !.fault = fault.point]

\* What an operation did: the file system it leaves, the record of the call,
\* the (key, version) pairs whose version file it wrote, and whether the call
\* is one the model takes (its fault point is reached, the bound is respected)
Out(st, r, made, enabled) == [st |-> st, res |-> r, made |-> made, enabled |-> enabled]

----------------------------------------------------------------------------
(* The operations of FileSystemPromptStorage *)

\* ensure_initialized up to, but not including, the save of an empty document
EnsureRootDir(st) == mkdir(st, root)

\* a get_prompt_ref that answers for an untracked key with its default layout
get_prompt_ref_unchecked(st, key) ==
    LET m == _load_meta(st)
    IN IF ~m.ok THEN [status |-> "ValueError", ref |-> NoRef]
       ELSE LET ver_dir == IF HasKey(m.prompts, key)
                           THEN _resolve_path(CfgOf(m.prompts, key).version_dir)
                           ELSE _default_version_dir(key)
                source_path == IF HasKey(m.prompts, key)
                               THEN _resolve_path(CfgOf(m.prompts, key).source_file)
                               ELSE NoPath
            IN [status |-> "ok",
                ref |-> PromptRef(key, source_path, ver_dir, _is_managed_by_root(ver_dir))]

get_prompt_ref(st, key) ==
    LET m == _load_meta(st)
    IN IF ~m.ok THEN [status |-> "ValueError", ref |-> NoRef]
       ELSE IF ~HasKey(m.prompts, key) THEN [status |-> "PromptNotFound", ref |-> NoRef]
       ELSE LET cfg == CfgOf(m.prompts, key)
                ver_dir == _resolve_path(cfg.version_dir)
            IN [status |-> "ok",
                ref |-> PromptRef(key, _resolve_path(cfg.source_file), ver_dir,
                                  _is_managed_by_root(ver_dir))]

\* a test of the key that never finds it tracked
AlreadyTracked_never(prompts, key) == FALSE

\* key in meta.prompts
AlreadyTracked(prompts, key) == HasKey(prompts, key)

\* a test of the source file that never finds it missing
SourceNotFound_never(st, source_path) == FALSE

\* not source_path.exists()
SourceNotFound(st, source_path) == ~Exists(st, source_path)

track_source(st, key, source_file, version_dir, fault) ==
    LET r == Result("track", key)
        st1 == EnsureRootDir(st)
        needInit == ~st1.meta.exists
        st2 == IF needInit THEN _save_meta(st1, _SCHEMA_VERSION, <<>>) ELSE st1
        m == _load_meta(st2)
        source_path == source_file
        ver_dir == IF version_dir = NoPath THEN _default_version_dir(key) ELSE version_dir
        st3 == mkdir(st2, ver_dir)
        managed_by_root == _is_managed_by_root(ver_dir)
        content == st3.files[source_path]
        content_hash == _compute_hash(content)
        next_ver == _next_version(st3, key, ver_dir, managed_by_root)
        version_path == _version_path(key, next_ver, ver_dir, managed_by_root)
        st4 == atomic_write_text(st3, version_path, content)
        cfg == _PromptConfig(key, _store_path(source_path), _store_path(ver_dir),
                             content_hash, next_ver)
        st5 == _save_meta(st4, m.schema, SetCfg(m.prompts, cfg))
        ref == PromptRef(key, source_path, ver_dir, managed_by_root)
        seen == [r EXCEPT !.ref = ref, !.content = content, !.version = next_ver,
                          !.path = version_path]
    IN IF needInit /\ fault.point = "init_save"
       THEN Out(st1, RaiseOSError(r, fault), {}, TRUE)
       ELSE IF ~m.ok THEN Out(st2, Raise(r, "ValueError"), {}, fault = NoFault)
       ELSE IF AlreadyTracked(m.prompts, key)
       THEN Out(st2, Raise(r, "PromptAlreadyExists"), {}, fault = NoFault)
       ELSE IF SourceNotFound(st2, source_path)
       THEN Out(st2, Raise(r, "SourceFileNotFound"), {}, fault = NoFault)
       ELSE IF fault.point = "mkdir"
       THEN Out(st2, RaiseOSError(r, fault), {}, TRUE)
       ELSE IF fault.point = "write_version"
       THEN Out(st3, RaiseOSError(seen, fault), {}, TRUE)
       ELSE IF fault.point = "save_meta"
       THEN Out(st4, RaiseOSError(seen, fault), {<<key, next_ver>>}, TRUE)
       ELSE Out(st5, seen, {<<key, next_ver>>}, fault = NoFault)

\* the code point of a character of a key
CodePoint(c) == CASE c = "-" -> 45 [] c = "1" -> 49 [] c = "a" -> 97

\* k1 < k2 as Python compares str: by code point, a proper prefix first
RECURSIVE KeyBefore(_, _)
KeyBefore(k1, k2) ==
    IF Len(k1) = 0 THEN Len(k2) > 0
    ELSE IF Len(k2) = 0 THEN FALSE
    ELSE IF k1[1] = k2[1] THEN KeyBefore(Tail(k1), Tail(k2))
    ELSE CodePoint(k1[1]) < CodePoint(k2[1])

\* a sort that puts the greatest key first
RECURSIVE SortKeys_descending(_)
SortKeys_descending(S) ==
    IF S = {} THEN <<>>
    ELSE LET k == CHOOSE x \in S : \A y \in S : y = x \/ KeyBefore(y, x)
         IN <<k>> \o SortKeys_descending(S \ {k})

\* sorted(meta.prompts.keys())
RECURSIVE SortKeys(_)
SortKeys(S) ==
    IF S = {} THEN <<>>
    ELSE LET k == CHOOSE x \in S : \A y \in S : y = x \/ KeyBefore(x, y)
         IN <<k>> \o SortKeys(S \ {k})

list_prompts(st, fault) ==
    LET r == Result("list", NoKey)
        st1 == EnsureRootDir(st)
        needInit == ~st1.meta.exists
        st2 == IF needInit THEN _save_meta(st1, _SCHEMA_VERSION, <<>>) ELSE st1
        m == _load_meta(st2)
        keys == SortKeys({m.prompts[i].key : i \in 1..Len(m.prompts)})
        InfoOf(key) ==
            LET ref == get_prompt_ref(st2, key).ref
                pairs == _scan_versions(st2, key, ref.version_dir, ref.managed_by_root)
            IN PromptInfo(ref, [i \in 1..Len(pairs) |->
                                   PromptVersion(key, pairs[i][1], pairs[i][2])])
    IN IF needInit /\ fault.point = "init_save"
       THEN Out(st1, RaiseOSError(r, fault), {}, TRUE)
       ELSE IF ~m.ok THEN Out(st2, Raise(r, "ValueError"), {}, fault = NoFault)
       ELSE Out(st2, [r EXCEPT !.infos = [i \in 1..Len(keys) |-> InfoOf(keys[i])]],
                {}, fault = NoFault)

\* a write_new_version that leaves the source file as it is
write_new_version_without_source(st, key, content, fault) ==
    LET r == [Result("write_new_version", key) EXCEPT !.content = content]
        g == get_prompt_ref(st, key)
        ref == g.ref
        m == _load_meta(st)
        cfg == CfgOf(m.prompts, key)
        next_ver == _next_version(st, key, ref.version_dir, ref.managed_by_root)
        version_path == _version_path(key, next_ver, ref.version_dir, ref.managed_by_root)
        st2 == atomic_write_text(st, version_path, content)
        cfg2 == [cfg EXCEPT !.last_hash = _compute_hash(content), !.last_version = next_ver]
        st3 == _save_meta(st2, m.schema, SetCfg(m.prompts, cfg2))
        seen == [r EXCEPT !.ref = ref, !.version = next_ver, !.path = version_path]
    IN IF g.status # "ok" THEN Out(st, Raise(r, g.status), {}, fault = NoFault)
       ELSE Out(st3, seen, {<<key, next_ver>>}, fault = NoFault)

write_new_version(st, key, content, fault) ==
    LET r == [Result("write_new_version", key) EXCEPT !.content = content]
        g == get_prompt_ref(st, key)
        ref == g.ref
        m == _load_meta(st)
        cfg == CfgOf(m.prompts, key)
        st1 == atomic_write_text(st, ref.source_file, content)
        next_ver == _next_version(st1, key, ref.version_dir, ref.managed_by_root)
        version_path == _version_path(key, next_ver, ref.version_dir, ref.managed_by_root)
        st2 == atomic_write_text(st1, version_path, content)
        cfg2 == [cfg EXCEPT !.last_hash = _compute_hash(content), !.last_version = next_ver]
        st3 == _save_meta(st2, m.schema, SetCfg(m.prompts, cfg2))
        seen == [r EXCEPT !.ref = ref, !.version = next_ver, !.path = version_path]
    IN IF g.status # "ok" THEN Out(st, Raise(r, g.status), {}, fault = NoFault)
       ELSE IF fault.point = "write_source"
       THEN Out(st, RaiseOSError([r EXCEPT !.ref = ref], fault), {}, TRUE)
       ELSE IF fault.point = "write_version"
       THEN Out(st1, RaiseOSError(seen, fault), {}, TRUE)
       ELSE IF fault.point = "save_meta"
       THEN Out(st2, RaiseOSError(seen, fault), {<<key, next_ver>>}, TRUE)
       ELSE Out(st3, seen, {<<key, next_ver>>}, fault = NoFault)

\* a test of the content that lets every text through
NoContent_never(content) == FALSE

\* not content
NoContent(content) == content = EmptyContent

\* PromptService.update_prompt: the record of the call is the one of the
\* write_new_version it ends with
update_prompt(st, key, content, fault) ==
    LET r == [Result("update_prompt", key) EXCEPT !.content = content, !.service = TRUE]
        g == get_prompt_ref(st, key)
        w == write_new_version(st, key, content, fault)
    IN IF NoContent(content)
       THEN Out(st, Raise(r, "NoContentProvided"), {}, fault = NoFault)
       ELSE IF g.status # "ok" THEN Out(st, Raise(r, g.status), {}, fault = NoFault)
       ELSE Out(w.st, [w.res EXCEPT !.service = TRUE], w.made, w.enabled)

\* a cache update that keeps the number of the version just removed
RemainingVersion_unchanged(pairs) == pairs[Len(pairs)][1]

\* pairs[-2][0] if pairs[:-1] else 0
RemainingVersion(pairs) == IF Len(pairs) > 1 THEN pairs[Len(pairs) - 1][1] ELSE 0

\* a record update that also forgets the fingerprint
AfterDeleteLatest_clearing_hash(cfg, pairs) ==
    [cfg EXCEPT !.last_version = RemainingVersion(pairs), !.last_hash = NoHash]

\* meta.prompts[key].last_version = ...: the only field delete_latest assigns
AfterDeleteLatest(cfg, pairs) == [cfg EXCEPT !.last_version = RemainingVersion(pairs)]

delete_latest(st, key, fault) ==
    LET r == Result("delete_latest", key)
        g == get_prompt_ref(st, key)
        ref == g.ref
        pairs == _scan_versions(st, key, ref.version_dir, ref.managed_by_root)
        ver == pairs[Len(pairs)][1]
        path == pairs[Len(pairs)][2]
        st1 == unlink(st, path)
        m == _load_meta(st1)
        cfg == CfgOf(m.prompts, key)
        cfg2 == AfterDeleteLatest(cfg, pairs)
        st2 == _save_meta(st1, m.schema, SetCfg(m.prompts, cfg2))
        seen == [r EXCEPT !.ref = ref, !.version = ver, !.path = path]
    IN IF g.status # "ok" THEN Out(st, Raise(r, g.status), {}, fault = NoFault)
       ELSE IF Len(pairs) = 0
       THEN Out(st, Raise([r EXCEPT !.ref = ref], "VersionNotFound"), {}, fault = NoFault)
       ELSE IF fault.point = "unlink"
       THEN Out(st, RaiseOSError(seen, fault), {}, TRUE)
       ELSE IF fault.point = "save_meta"
       THEN Out(st1, RaiseOSError(seen, fault), {}, TRUE)
       ELSE Out(st2, seen, {}, fault = NoFault)

\* for _, p in pairs[:n]: p.unlink()
RECURSIVE UnlinkAll(_, _, _)
UnlinkAll(st, pairs, n) ==
    IF n <= 0 THEN st ELSE unlink(UnlinkAll(st, pairs, n - 1), pairs[n][2])

delete_all(st, key, fault) ==
    LET r == Result("delete_all", key)
        g == get_prompt_ref(st, key)
        ref == g.ref
        pairs == _scan_versions(st, key, ref.version_dir, ref.managed_by_root)
        st1 == UnlinkAll(st, pairs, Len(pairs))
        st2 == IF ref.managed_by_root THEN rmdir(st1, ref.version_dir) ELSE st1
        m == _load_meta(st2)
        st3 == _save_meta(st2, m.schema, DelCfg(m.prompts, key))
        seen == [r EXCEPT !.ref = ref, !.count = Len(pairs)]
    IN IF g.status # "ok" THEN Out(st, Raise(r, g.status), {}, fault = NoFault)
       ELSE IF fault.point = "unlink"
       THEN IF fault.at \in 1..Len(pairs)
            THEN Out(UnlinkAll(st, pairs, fault.at - 1), RaiseOSError(seen, fault), {}, TRUE)
            ELSE Out(st, r, {}, FALSE)
       ELSE IF fault.point = "save_meta"
       THEN Out(st2, RaiseOSError(seen, fault), {}, TRUE)
       ELSE Out(st3, seen, {}, fault = NoFault)

\* a "latest" that takes the first pair of the scan
LatestPair_first(pairs) == pairs[1]

\* the pair read_version takes for version = None: pairs[-1]
LatestPair(pairs) == pairs[Len(pairs)]

read_version(st, key, version) ==
    LET r == [Result("read_version", key) EXCEPT !.asked = version]
        g == get_prompt_ref(st, key)
        ref == g.ref
        pairs == _scan_versions(st, key, ref.version_dir, ref.managed_by_root)
        hits == {i \in 1..Len(pairs) : pairs[i][1] = version}
        \* the first pair of the scan that carries the version asked for
        first == CHOOSE i \in hits : \A j \in hits : i <= j
        seen == [r EXCEPT !.ref = ref]
    IN IF g.status # "ok" THEN Out(st, Raise(r, g.status), {}, TRUE)
       ELSE IF Len(pairs) = 0 THEN Out(st, Raise(seen, "VersionNotFound"), {}, TRUE)
       ELSE IF version = NoVersion
       THEN Out(st, [seen EXCEPT !.version = LatestPair(pairs)[1],
                                 !.path = LatestPair(pairs)[2],
                                 !.content = st.files[LatestPair(pairs)[2]]], {}, TRUE)
       ELSE IF hits # {}
       THEN Out(st, [seen EXCEPT !.version = version, !.path = pairs[first][2],
                                 !.content = st.files[pairs[first][2]]], {}, TRUE)
       ELSE Out(st, Raise(seen, "VersionNotFound"), {}, TRUE)

\* a test for "nothing to do" that forgets the force argument
NoChange_ignoring_force(force, current_hash, last_hash) == current_hash = last_hash

\* not force and current_hash == cfg.last_hash
NoChange(force, current_hash, last_hash) == ~force /\ current_hash = last_hash

\* a test of the source file that never finds it missing
SourceMissing_never(st, ref) == FALSE

\* not ref.source_file.exists()
SourceMissing(st, ref) == ~Exists(st, ref.source_file)

sync_from_source(st, key, force, fault) ==
    LET r == [Result("sync", key) EXCEPT !.force = force]
        g == get_prompt_ref(st, key)
        ref == g.ref
        m == _load_meta(st)
        cfg == CfgOf(m.prompts, key)
        content == st.files[ref.source_file]
        current_hash == _compute_hash(content)
        old_version == cfg.last_version
        next_ver == _next_version(st, key, ref.version_dir, ref.managed_by_root)
        version_path == _version_path(key, next_ver, ref.version_dir, ref.managed_by_root)
        st1 == atomic_write_text(st, version_path, content)
        cfg2 == [cfg EXCEPT !.last_hash = current_hash, !.last_version = next_ver]
        st2 == _save_meta(st1, m.schema, SetCfg(m.prompts, cfg2))
        read == [r EXCEPT !.ref = ref, !.content = content]
        seen == [read EXCEPT !.version = next_ver, !.path = version_path]
    IN IF g.status # "ok" THEN Out(st, Raise(r, g.status), {}, fault = NoFault)
       ELSE IF SourceMissing(st, ref)
       THEN Out(st, Raise([r EXCEPT !.ref = ref], "SourceFileNotFound"), {}, fault = NoFault)
       ELSE IF NoChange(force, current_hash, cfg.last_hash)
       THEN Out(st, [read EXCEPT !.changed = FALSE, !.old_version = cfg.last_version,
                                 !.new_version = NoVersion], {}, fault = NoFault)
       ELSE IF fault.point = "write_version"
       THEN Out(st, RaiseOSError(seen, fault), {}, TRUE)
       ELSE IF fault.point = "save_meta"
       THEN Out(st1, RaiseOSError(seen, fault), {<<key, next_ver>>}, TRUE)
       ELSE Out(st2, [seen EXCEPT !.changed = TRUE, !.old_version = old_version,
                                  !.new_version = next_ver],
                {<<key, next_ver>>}, fault = NoFault)

\* the SyncResult a successful sync_from_source returns
SyncResultOf(r) ==
    SyncResult(r.key, r.changed, r.old_version, r.new_version,
               IF r.changed THEN "synced" ELSE "unchanged")

\* the loop of sync_all_sources from the i-th key of the loaded document on;
\* fault.at is the position of the key whose sync raises OSError
RECURSIVE SyncLoop(_, _, _, _, _, _)
SyncLoop(st, keys, i, fault, results, made) ==
    LET r == [Result("sync_all", NoKey) EXCEPT !.results = results]
    IN IF i > Len(keys) THEN Out(st, r, made, fault = NoFault)
       ELSE LET o == sync_from_source(st, keys[i], FALSE,
                                      IF fault.at = i THEN fault ELSE NoFault)
            IN IF ~o.enabled THEN Out(st, r, made, FALSE)
               ELSE IF o.res.status = "ok"
               THEN SyncLoop(o.st, keys, i + 1, fault,
                             Append(results, SyncResultOf(o.res)), made \cup o.made)
               ELSE IF o.res.status = "SourceFileNotFound"
               THEN SyncLoop(o.st, keys, i + 1, fault,
                             Append(results, SyncResult(keys[i], FALSE, NoVersion,
                                                        NoVersion, "error")), made)
               ELSE Out(o.st, [r EXCEPT !.status = o.res.status, !.fault = o.res.fault,
                                        !.key = keys[i]],
                        made \cup o.made, TRUE)

sync_all_sources(st, fault) ==
    LET m == _load_meta(st)
        keys == [i \in 1..Len(m.prompts) |-> m.prompts[i].key]
    IN IF ~m.ok
       THEN Out(st, Raise(Result("sync_all", NoKey), "ValueError"), {}, fault = NoFault)
       ELSE SyncLoop(st, keys, 1, fault, <<>>, {})

key_exists(st, key) == HasKey(_load_meta(st).prompts, key)

\* an untrack that removes the version files whatever keep_versions says
untrack_deleting_versions(st, key, keep_versions, fault) ==
    LET r == Result("untrack", key)
        m == _load_meta(st)
        d == delete_all(st, key, fault)
    IN IF ~m.ok THEN Out(st, Raise(r, "ValueError"), {}, fault = NoFault)
       ELSE IF ~key_exists(st, key)
       THEN Out(st, Raise(r, "PromptNotFound"), {}, fault = NoFault)
       ELSE Out(d.st, [d.res EXCEPT !.op = "untrack", !.keep_versions = keep_versions,
                                    !.count = 0],
                d.made, d.enabled)

untrack(st, key, keep_versions, fault) ==
    LET r == Result("untrack", key)
        m == _load_meta(st)
        d == delete_all(st, key, fault)
        st1 == _save_meta(st, m.schema, DelCfg(m.prompts, key))
        seen == [r EXCEPT !.ref = get_prompt_ref(st, key).ref]
    IN IF ~m.ok THEN Out(st, Raise(r, "ValueError"), {}, fault = NoFault)
       ELSE IF ~key_exists(st, key)
       THEN Out(st, Raise(r, "PromptNotFound"), {}, fault = NoFault)
       ELSE IF ~keep_versions
       THEN Out(d.st, [d.res EXCEPT !.op = "untrack", !.keep_versions = FALSE, !.count = 0],
                d.made, d.enabled)
       ELSE IF fault.point = "save_meta"
       THEN Out(st, RaiseOSError(seen, fault), {}, TRUE)
       ELSE Out(st1, seen, {}, fault = NoFault)

----------------------------------------------------------------------------
(* Actions *)

\* the processes that use the repository
Procs == {1, 2}

\* the locals of a process that is in no call
NoLoaded == [ok |-> FALSE, schema |-> 0, prompts |-> <<>>]
Idle == [pc |-> "idle", op |-> "none", key |-> NoKey, content |-> NoText,
         ref |-> NoRef, loaded |-> NoLoaded, next_ver |-> NoVersion, path |-> NoPath]

Max(a, b) == IF a >= b THEN a ELSE b

\* the highest version number among the pairs made for key, 0 without any
MaxMade(made, key) ==
    LET ns == {p[2] : p \in {q \in made : q[1] = key}}
    IN IF ns = {} THEN 0 ELSE CHOOSE n \in ns : \A x \in ns : x <= n

\* the history of created versions after a call: a key that is not tracked
\* after the call has none, a tracked key has the versions just made as well
RECURSIVE Created(_, _, _)
Created(mc, keys, o) ==
    IF keys = {} THEN mc
    ELSE LET k == CHOOSE x \in keys : TRUE
             n == IF ~HasKey(o.st.meta.prompts, k) THEN 0
                  ELSE Max(mc[k], MaxMade(o.made, k))
         IN Created([mc EXCEPT ![k] = n], keys \ {k}, o)

\* A call takes the file system from St to o.st and leaves its record in res.
\* A call that raises before it has changed anything is no step: the
\* exception is the handler's early return, and the guard of the action.
Apply(o) ==
    /\ calls < MaxCalls
    /\ o.enabled
    /\ o.res.status = "ok" \/ o.st # St
    /\ calls' = calls + 1
    /\ files' = o.st.files
    /\ dirs' = o.st.dirs
    /\ meta' = o.st.meta
    /\ res' = o.res
    /\ maxCreated' = Created(maxCreated, Keys, o)
    /\ UNCHANGED procs

Track(key, source_file, version_dir, fault) ==
    Apply(track_source(St, key, source_file, version_dir, fault))

Sync(key, force, fault) == Apply(sync_from_source(St, key, force, fault))

SyncAll(fault) == Apply(sync_all_sources(St, fault))

WriteNewVersion(key, content, fault) == Apply(write_new_version(St, key, content, fault))

DeleteLatest(key, fault) == Apply(delete_latest(St, key, fault))

DeleteAll(key, fault) == Apply(delete_all(St, key, fault))

Untrack(key, keep_versions, fault) == Apply(untrack(St, key, keep_versions, fault))

ReadVersion(key, version) == Apply(read_version(St, key, version))

ListPrompts(fault) == Apply(list_prompts(St, fault))

UpdatePrompt(key, content, fault) == Apply(update_prompt(St, key, content, fault))

\* the user edits or creates a source file
EditSource(source_file, content) ==
    /\ files[source_file] # content
    /\ files' = [files EXCEPT ![source_file] = content]
    /\ res' = [Result("edit_source", NoKey) EXCEPT !.path = source_file, !.content = content]
    /\ calls < MaxCalls
    /\ calls' = calls + 1
    /\ UNCHANGED <<dirs, meta, maxCreated, procs>>

\* the user removes a source file
RemoveSource(source_file) ==
    /\ files[source_file] # Absent
    /\ files' = [files EXCEPT ![source_file] = Absent]
    /\ res' = [Result("remove_source", NoKey) EXCEPT !.path = source_file]
    /\ calls < MaxCalls
    /\ calls' = calls + 1
    /\ UNCHANGED <<dirs, meta, maxCreated, procs>>

\* the highest version number a call can assign: a behaviour of MaxCalls
\* steps creates at most MaxCalls versions in a directory, and one more call
\* (a sync_all_sources over the keys) at most one more per key
MaxVersion == MaxCalls + Cardinality(Keys)

\* the directory names a schema-1 layout holds under .prompts: the keys, and
\* a name that starts with an underscore
UnderscoreKey == <<"_", "x">>
LegacyKeys == Keys \cup {UnderscoreKey}

\* backup_path = prompts_root / "_meta.json.v1.bak"
backup_path == root \o << <<"_meta.json.v1.bak">> >>

\* source_file = prompts_dir / f"{key}.md", prompts_dir being <repo_root>/prompts
MigratedSource(key) == SourceDir \o << key \o <<".md">> >>

\* the paths the migration can write, and the version file of the
\* underscore directory
MigrationPaths ==
    {backup_path} \cup {MigratedSource(k) : k \in LegacyKeys}
        \cup {_version_path(UnderscoreKey, 1, _default_version_dir(UnderscoreKey), TRUE)}

\* the version files the engine can name
VersionPaths ==
    {_version_path(k, n, d, _is_managed_by_root(d)) :
        k \in Keys, n \in 1..MaxVersion, d \in VersionDirs}

\* the paths at which a file can come to exist
AllPaths == SourceFiles \cup VersionPaths \cup MigrationPaths

\* the texts the source files hold when the engine is constructed
InitialSource(p) == IF p = SourcePath(1) THEN <<"x">> ELSE EmptyContent

\* the version file a schema-1 engine left for the key "a"
LegacyVersionPath ==
    _version_path(<<"a">>, 1, _default_version_dir(<<"a">>), TRUE)

\* The engine is constructed in a repository that holds the source files and
\* either no .prompts directory yet, or the .prompts directory of a schema-1
\* engine with its metadata document and a version file.
Init ==
    /\ \E legacy \in BOOLEAN :
          /\ files = [p \in AllPaths |->
                         IF p \in SourceFiles THEN InitialSource(p)
                         ELSE IF legacy /\ p = LegacyVersionPath THEN <<"x">>
                         ELSE Absent]
          /\ dirs = Ancestors(SourceDir) \cup
                       (IF legacy THEN Ancestors(Parent(LegacyVersionPath)) ELSE {})
          /\ meta = IF legacy THEN LegacyMeta ELSE NoMetaFile
    /\ res = Result("init", NoKey)
    /\ maxCreated = [k \in Keys |-> 0]
    /\ calls = 0
    /\ procs = [p \in Procs |-> Idle]

VersionArgs == {NoVersion} \cup (1..MaxCalls)

\* The calls the model's callers make.  Each key is tracked from its own
\* source file; "a" keeps its versions in its default directory or in the
\* custom one, and "a-1" may also be pointed at the default directory of "a".
SourceOf(key) == IF key = <<"a">> THEN SourcePath(1) ELSE SourcePath(2)
VersionDirArgsOf(key) ==
    IF key = <<"a">> THEN {NoPath, CustomDir}
    ELSE {NoPath, CustomDir, _default_version_dir(<<"a">>)}

Environment ==
    \/ \E f \in SourceFiles, c \in Contents : EditSource(f, c)
    \/ \E f \in SourceFiles : RemoveSource(f)

\* the file system never fails
Next ==
    \/ \E k \in Keys : \E d \in VersionDirArgsOf(k) : Track(k, SourceOf(k), d, NoFault)
    \/ \E k \in Keys, force \in BOOLEAN : Sync(k, force, NoFault)
    \/ SyncAll(NoFault)
    \/ \E k \in Keys, c \in Contents : WriteNewVersion(k, c, NoFault)
    \/ \E k \in Keys : DeleteLatest(k, NoFault)
    \/ \E k \in Keys : DeleteAll(k, NoFault)
    \/ \E k \in Keys, keep \in BOOLEAN : Untrack(k, keep, NoFault)
    \/ \E k \in Keys, v \in VersionArgs : ReadVersion(k, v)
    \/ ListPrompts(NoFault)
    \/ \E k \in Keys, c \in Contents : UpdatePrompt(k, c, NoFault)
    \/ Environment

Spec == Init /\ [][Next]_vars

\* the fault points of each handler
TrackFaults == {FaultAt(p, 0) : p \in {"init_save", "mkdir", "write_version", "save_meta"}}
SyncFaults == {FaultAt(p, 0) : p \in {"write_version", "save_meta"}}
SyncAllFaults == {FaultAt(p, i) : p \in {"write_version", "save_meta"},
                                  i \in 1..Cardinality(Keys)}
WriteFaults == {FaultAt(p, 0) : p \in {"write_source", "write_version", "save_meta"}}
ListFaults == {FaultAt("init_save", 0)}
DeleteLatestFaults == {FaultAt(p, 0) : p \in {"unlink", "save_meta"}}
DeleteAllFaults == {FaultAt("save_meta", 0)} \cup {FaultAt("unlink", i) : i \in 1..MaxCalls}

\* a call may be made only within the first MaxFaultCalls steps
FaultStep == calls < MaxFaultCalls

\* every call of Next, where moreover one file-system call of a handler may
\* raise OSError
NextFault ==
    \/ \E k \in Keys : \E d \in VersionDirArgsOf(k), fault \in TrackFaults \cup {NoFault} :
          FaultStep /\ Track(k, SourceOf(k), d, fault)
    \/ \E k \in Keys, force \in BOOLEAN, fault \in SyncFaults \cup {NoFault} :
          FaultStep /\ Sync(k, force, fault)
    \/ \E fault \in SyncAllFaults \cup {NoFault} : FaultStep /\ SyncAll(fault)
    \/ \E k \in Keys, c \in Contents, fault \in WriteFaults \cup {NoFault} :
          FaultStep /\ WriteNewVersion(k, c, fault)
    \/ \E k \in Keys, fault \in DeleteLatestFaults \cup {NoFault} :
          FaultStep /\ DeleteLatest(k, fault)
    \/ \E k \in Keys, fault \in DeleteAllFaults \cup {NoFault} :
          FaultStep /\ DeleteAll(k, fault)
    \/ \E k \in Keys, keep \in BOOLEAN, fault \in DeleteAllFaults \cup {NoFault} :
          FaultStep /\ Untrack(k, keep, fault)
    \/ \E k \in Keys, v \in VersionArgs : FaultStep /\ ReadVersion(k, v)
    \/ \E fault \in ListFaults \cup {NoFault} : FaultStep /\ ListPrompts(fault)
    \/ \E k \in Keys, c \in Contents, fault \in WriteFaults \cup {NoFault} :
          FaultStep /\ UpdatePrompt(k, c, fault)
    \/ FaultStep /\ Environment

SpecFault == Init /\ [][NextFault]_vars

----------------------------------------------------------------------------
(* Two processes: a call is a sequence of file-system steps, and the steps of
   the calls of different processes interleave.  A step is the reads of a
   call up to its next write, or one write. *)

\* the process is in no call and may start one
MayBegin(p) == procs[p].pc = "idle" /\ calls < MaxRaceCalls

\* track_source up to the read of the source file: ensure_initialized, the
\* load of the document, the two tests and the mkdir of the version directory
BeginTrack(p, key, source_file, version_dir) ==
    LET st1 == EnsureRootDir(St)
        st2 == IF ~st1.meta.exists THEN _save_meta(st1, _SCHEMA_VERSION, <<>>) ELSE st1
        m == _load_meta(st2)
        ver_dir == IF version_dir = NoPath THEN _default_version_dir(key) ELSE version_dir
        st3 == mkdir(st2, ver_dir)
    IN /\ MayBegin(p)
       /\ m.ok
       /\ ~AlreadyTracked(m.prompts, key)
       /\ ~SourceNotFound(st2, source_file)
       /\ files' = st3.files
       /\ dirs' = st3.dirs
       /\ meta' = st3.meta
       /\ procs' = [procs EXCEPT ![p] =
              [Idle EXCEPT !.pc = "loaded", !.op = "track", !.key = key,
                           !.content = st3.files[source_file],
                           !.ref = PromptRef(key, source_file, ver_dir,
                                             _is_managed_by_root(ver_dir)),
                           !.loaded = m]]
       /\ calls' = calls + 1
       /\ UNCHANGED <<res, maxCreated>>

\* sync_from_source up to the test for "nothing to do", when it goes on
BeginSync(p, key, force) ==
    LET g == get_prompt_ref(St, key)
        m == _load_meta(St)
        content == files[g.ref.source_file]
    IN /\ MayBegin(p)
       /\ g.status = "ok"
       /\ ~SourceMissing(St, g.ref)
       /\ ~NoChange(force, _compute_hash(content), CfgOf(m.prompts, key).last_hash)
       /\ procs' = [procs EXCEPT ![p] =
              [Idle EXCEPT !.pc = "loaded", !.op = "sync", !.key = key,
                           !.content = content, !.ref = g.ref, !.loaded = m]]
       /\ calls' = calls + 1
       /\ UNCHANGED <<files, dirs, meta, res, maxCreated>>

\* write_new_version up to the write of the source file
BeginWrite(p, key, content) ==
    LET g == get_prompt_ref(St, key)
        m == _load_meta(St)
    IN /\ MayBegin(p)
       /\ g.status = "ok"
       /\ procs' = [procs EXCEPT ![p] =
              [Idle EXCEPT !.pc = "to_source", !.op = "write_new_version", !.key = key,
                           !.content = content, !.ref = g.ref, !.loaded = m]]
       /\ calls' = calls + 1
       /\ UNCHANGED <<files, dirs, meta, res, maxCreated>>

\* write_new_version: atomic_write_text(ref.source_file, content)
WriteSourceStep(p) ==
    LET l == procs[p]
        st1 == atomic_write_text(St, l.ref.source_file, l.content)
    IN /\ l.pc = "to_source"
       /\ files' = st1.files
       /\ dirs' = st1.dirs
       /\ procs' = [procs EXCEPT ![p].pc = "loaded"]
       /\ UNCHANGED <<meta, res, maxCreated, calls>>

\* next_ver = _next_version(...); version_path = _version_path(...)
ScanStep(p) ==
    LET l == procs[p]
        next_ver == _next_version(St, l.key, l.ref.version_dir, l.ref.managed_by_root)
    IN /\ l.pc = "loaded"
       /\ procs' = [procs EXCEPT ![p].pc = "scanned",
                                 ![p].next_ver = next_ver,
                                 ![p].path = _version_path(l.key, next_ver, l.ref.version_dir,
                                                           l.ref.managed_by_root)]
       /\ UNCHANGED <<files, dirs, meta, res, maxCreated, calls>>

\* atomic_write_text(version_path, content)
WriteVersionStep(p) ==
    LET l == procs[p]
        st1 == atomic_write_text(St, l.path, l.content)
    IN /\ l.pc = "scanned"
       /\ files' = st1.files
       /\ dirs' = st1.dirs
       /\ procs' = [procs EXCEPT ![p].pc = "written"]
       /\ UNCHANGED <<meta, res, maxCreated, calls>>

\* the record the call puts into the document it loaded
SavedCfg(l) ==
    IF l.op = "track"
    THEN _PromptConfig(l.key, _store_path(l.ref.source_file), _store_path(l.ref.version_dir),
                       _compute_hash(l.content), l.next_ver)
    ELSE [CfgOf(l.loaded.prompts, l.key) EXCEPT !.last_hash = _compute_hash(l.content),
                                                !.last_version = l.next_ver]

\* self._save_meta(meta), and the return of the call
SaveStep(p) ==
    LET l == procs[p]
        st1 == _save_meta(St, l.loaded.schema, SetCfg(l.loaded.prompts, SavedCfg(l)))
    IN /\ l.pc = "written"
       /\ meta' = st1.meta
       /\ dirs' = st1.dirs
       /\ res' = [Result(l.op, l.key) EXCEPT !.ref = l.ref, !.content = l.content,
                                             !.version = l.next_ver, !.path = l.path]
       /\ procs' = [procs EXCEPT ![p] = Idle]
       /\ UNCHANGED <<files, maxCreated, calls>>

NextRace ==
    \/ \E p \in Procs, k \in Keys : BeginTrack(p, k, SourceOf(k), NoPath)
    \/ \E p \in Procs, k \in Keys, force \in BOOLEAN : BeginSync(p, k, force)
    \/ \E p \in Procs, k \in Keys, c \in Contents : BeginWrite(p, k, c)
    \/ \E p \in Procs : WriteSourceStep(p)
    \/ \E p \in Procs : ScanStep(p)
    \/ \E p \in Procs : WriteVersionStep(p)
    \/ \E p \in Procs : SaveStep(p)

SpecRace == Init /\ [][NextRace]_vars

----------------------------------------------------------------------------
(* A repository whose source file lies in the version directory: the user
   keeps the prompt file versions/a-1.md and tracks it as key "a" with the
   version directory versions.  track_source accepts any existing source
   file and any version directory. *)

OverlapSource == _version_path(<<"a">>, 1, CustomDir, FALSE)

InitOverlap ==
    /\ files = [p \in AllPaths |->
                   IF p \in SourceFiles THEN InitialSource(p)
                   ELSE IF p = OverlapSource THEN <<"x">>
                   ELSE Absent]
    /\ dirs = Ancestors(SourceDir) \cup Ancestors(CustomDir)
    /\ meta = NoMetaFile
    /\ res = Result("init", NoKey)
    /\ maxCreated = [k \in Keys |-> 0]
    /\ calls = 0
    /\ procs = [p \in Procs |-> Idle]

NextOverlap ==
    \/ \E k \in Keys : Track(k, OverlapSource, CustomDir, NoFault)
    \/ \E k \in Keys, force \in BOOLEAN : Sync(k, force, NoFault)
    \/ SyncAll(NoFault)
    \/ \E k \in Keys, c \in Contents : WriteNewVersion(k, c, NoFault)
    \/ \E k \in Keys : DeleteLatest(k, NoFault)
    \/ \E k \in Keys : DeleteAll(k, NoFault)
    \/ \E k \in Keys, keep \in BOOLEAN : Untrack(k, keep, NoFault)
    \/ \E c \in Contents : EditSource(OverlapSource, c)

SpecOverlap == InitOverlap /\ [][NextOverlap]_vars

----------------------------------------------------------------------------
(* The inline diff builder and PromptService.diff_versions.  A text is the
   sequence of its characters, a token a non-empty piece of a text, a segment
   an operation with a text. *)

Whitespace == {" "}
Alphabet == {"a", "b", " "}

\* the texts the versions of the diff specification hold
Texts == UNION {[1..n -> Alphabet] : n \in 0..MaxTextLen}

Segment(op, text) == [op |-> op, text |-> text]

\* the length of the run of whitespace, or of other characters, text starts with
RunLen(text) ==
    CHOOSE n \in 1..Len(text) :
        /\ \A i \in 1..n : (text[i] \in Whitespace) = (text[1] \in Whitespace)
        /\ n = Len(text) \/ (text[n + 1] \in Whitespace) # (text[1] \in Whitespace)

\* word granularity: the text split on whitespace, the separators kept as
\* tokens of their own
RECURSIVE WordTokens(_)
WordTokens(text) ==
    IF text = <<>> THEN <<>>
    ELSE <<SubSeq(text, 1, RunLen(text))>> \o
         WordTokens(SubSeq(text, RunLen(text) + 1, Len(text)))

\* char granularity: one token per character
CharTokens(text) == [i \in 1..Len(text) |-> <<text[i]>>]

Tokenize(text, granularity) ==
    IF granularity = "char" THEN CharTokens(text) ELSE WordTokens(text)

\* the length of a longest common subsequence of two token sequences
RECURSIVE LcsLen(_, _)
LcsLen(a, b) ==
    IF a = <<>> \/ b = <<>> THEN 0
    ELSE IF Head(a) = Head(b) THEN 1 + LcsLen(Tail(a), Tail(b))
    ELSE Max(LcsLen(Tail(a), b), LcsLen(a, Tail(b)))

\* an alignment along a longest common subsequence, one operation per token;
\* where dropping a token of a and adding a token of b keep the same common
\* subsequence, tie names the one that comes first
RECURSIVE Align(_, _, _)
Align(a, b, tie) ==
    IF a = <<>> THEN [i \in 1..Len(b) |-> Segment("insert", b[i])]
    ELSE IF b = <<>> THEN [i \in 1..Len(a) |-> Segment("delete", a[i])]
    ELSE IF Head(a) = Head(b)
    THEN <<Segment("equal", Head(a))>> \o Align(Tail(a), Tail(b), tie)
    ELSE IF \/ LcsLen(Tail(a), b) > LcsLen(a, Tail(b))
            \/ LcsLen(Tail(a), b) = LcsLen(a, Tail(b)) /\ tie = "delete"
    THEN <<Segment("delete", Head(a))>> \o Align(Tail(a), b, tie)
    ELSE <<Segment("insert", Head(b))>> \o Align(a, Tail(b), tie)

\* consecutive tokens of the same operation merged into one segment
RECURSIVE MergeSegments(_)
MergeSegments(ops) ==
    IF Len(ops) <= 1 THEN ops
    ELSE LET rest == MergeSegments(Tail(ops))
         IN IF Head(ops).op = rest[1].op
            THEN <<Segment(Head(ops).op, Head(ops).text \o rest[1].text)>> \o Tail(rest)
            ELSE <<Head(ops)>> \o rest

build_inline_diff(a, b, granularity, tie) ==
    MergeSegments(Align(Tokenize(a, granularity), Tokenize(b, granularity), tie))

\* a diff_versions that hands the two contents to the builder in the other order
diff_versions_swapped(st, key, v1, v2, granularity, tie) ==
    LET r == [Result("diff", key) EXCEPT !.v1 = v1, !.v2 = v2,
                                         !.granularity = granularity, !.service = TRUE]
        a == read_version(st, key, v1)
        b == read_version(st, key, v2)
        g == IF granularity \notin {"word", "char"} THEN "word" ELSE granularity
    IN IF a.res.status # "ok" THEN Out(st, Raise(r, a.res.status), {}, TRUE)
       ELSE IF b.res.status # "ok" THEN Out(st, Raise(r, b.res.status), {}, TRUE)
       ELSE Out(st, [r EXCEPT !.segments =
                        build_inline_diff(b.res.content, a.res.content, g, tie)],
                {}, TRUE)

\* PromptService.diff_versions; tie is the choice the builder makes between
\* alignments of the same length
diff_versions(st, key, v1, v2, granularity, tie) ==
    LET r == [Result("diff", key) EXCEPT !.v1 = v1, !.v2 = v2,
                                         !.granularity = granularity, !.service = TRUE]
        a == read_version(st, key, v1)
        b == read_version(st, key, v2)
        g == IF granularity \notin {"word", "char"} THEN "word" ELSE granularity
    IN IF a.res.status # "ok" THEN Out(st, Raise(r, a.res.status), {}, TRUE)
       ELSE IF b.res.status # "ok" THEN Out(st, Raise(r, b.res.status), {}, TRUE)
       ELSE Out(st, [r EXCEPT !.segments =
                        build_inline_diff(a.res.content, b.res.content, g, tie)],
                {}, TRUE)

\* diff_versions reads only: the call is recorded and counted, nothing else
\* changes; the two calls that built the repository are counted already
DiffVersions(key, v1, v2, granularity, tie) ==
    /\ calls < 2 + MaxDiffCalls
    /\ calls' = calls + 1
    /\ res' = diff_versions(St, key, v1, v2, granularity, tie).res
    /\ UNCHANGED <<files, dirs, meta, maxCreated, procs>>

\* the repository after track("a", prompts/s1.md, version_dir) on a source
\* file holding A and write_new_version("a", B): versions 1 and 2 hold A and B
InitDiff ==
    \E A \in Texts, B \in Texts, version_dir \in {NoPath, CustomDir} :
        LET st0 == [files |-> [p \in AllPaths |-> IF p = SourcePath(1) THEN A ELSE Absent],
                    dirs |-> Ancestors(SourceDir),
                    meta |-> NoMetaFile]
            t == track_source(st0, <<"a">>, SourcePath(1), version_dir, NoFault)
            w == write_new_version(t.st, <<"a">>, B, NoFault)
        IN /\ files = w.st.files
           /\ dirs = w.st.dirs
           /\ meta = w.st.meta
           /\ res = w.res
           /\ maxCreated = [k \in Keys |-> IF k = <<"a">> THEN 2 ELSE 0]
           /\ calls = 2
           /\ procs = [p \in Procs |-> Idle]

Granularities == {"word", "char", "line"}

NextDiff ==
    \E key \in Keys, v1 \in 1..3, v2 \in 1..3, granularity \in Granularities,
       tie \in {"delete", "insert"} :
        DiffVersions(key, v1, v2, granularity, tie)

SpecDiff == InitDiff /\ [][NextDiff]_vars

----------------------------------------------------------------------------
(* The schema-1-to-2 migration (migration.py), run without a terminal:
   interactive = False, prompts_dir = None.  A schema-1 document holds the
   custom directories only; the keys are the directory names. *)

\* a schema-1 document {"schema": 1, "custom_dirs": {...}}; custom_dirs is a
\* dict: a sequence of (key, dir) records in insertion order
LegacyDoc(custom_dirs) ==
    [exists |-> TRUE, schema |-> _SCHEMA_VERSION - 1, prompts |-> <<>>,
     custom_dirs |-> custom_dirs]

\* what a file holding a copy of the metadata document holds
DocText(doc) == <<"_meta.json", doc>>

\* v1_data.get("custom_dirs", {})
CustomDirsOf(doc) == IF "custom_dirs" \in DOMAIN doc THEN doc.custom_dirs ELSE <<>>

\* _scan_default_versions: the <n>.md files of the directory, ascending
_scan_default_versions(st, key, version_dir) ==
    IF version_dir \notin st.dirs THEN <<>>
    ELSE LET found == {p \in DOMAIN st.files :
                          Exists(st, p) /\ Parent(p) = version_dir /\ MatchesManaged(Name(p))}
         IN SortPairs({<<StrToInt(Stem(Name(p))), p>> : p \in found})

\* _scan_custom_versions: the <key>-<n>.md files of the directory, ascending
_scan_custom_versions(st, key, version_dir) ==
    IF version_dir \notin st.dirs THEN <<>>
    ELSE LET found == {p \in DOMAIN st.files :
                          Exists(st, p) /\ Parent(p) = version_dir /\ MatchesCustom(key, Name(p))}
         IN SortPairs({<<StrToInt(SubSeq(Name(p), Len(key) + 2, Len(Name(p)) - 1)), p>> :
                          p \in found})

\* p.name == "__pycache__" or p.name.startswith("_")
SkippedName(name) == name = <<"__pycache__">> \/ (Len(name) > 0 /\ name[1] = "_")

\* the keys of the default-managed prompts: the directories under .prompts
\* whose name is not skipped, not in custom_dirs, and that hold a version
DefaultKeysOf(st, custom_dirs) ==
    {Name(d) : d \in {e \in st.dirs :
                         /\ Len(e) = Len(root) + 1
                         /\ Parent(e) = root
                         /\ ~SkippedName(Name(e))
                         /\ ~HasKey(custom_dirs, Name(e))
                         /\ Len(_scan_default_versions(st, Name(e), e)) > 0}}

\* the orders in which iterdir() can hand out the names of S
Orders(S) == {o \in [1..Cardinality(S) -> S] : \A x \in S : \E i \in DOMAIN o : o[i] = x}

PromptToMigrate(key, version_dir, versions, managed_by_root) ==
    [key |-> key, version_dir |-> version_dir, versions |-> versions,
     managed_by_root |-> managed_by_root]

\* prompts_to_migrate: the default-managed prompts in the order of iterdir(),
\* then the entries of custom_dirs whose directory holds a version
PromptsToMigrate(st, custom_dirs, order) ==
    [i \in 1..Len(order) |->
        PromptToMigrate(order[i], root \o <<order[i]>>,
                        _scan_default_versions(st, order[i], root \o <<order[i]>>), TRUE)]
    \o SelectSeq([i \in 1..Len(custom_dirs) |->
                    PromptToMigrate(custom_dirs[i].key, _resolve_path(custom_dirs[i].dir),
                                    _scan_custom_versions(st, custom_dirs[i].key,
                                                          _resolve_path(custom_dirs[i].dir)),
                                    FALSE)],
                 LAMBDA info : Len(info.versions) > 0)

\* latest_version, latest_path = versions[-1]
LatestOf(versions) == versions[Len(versions)]

\* the body of the loop over prompts_to_migrate for the first n prompts:
\* the files it leaves and the records of v2_prompts
RECURSIVE MigrateLoop(_, _, _)
MigrateLoop(st, todo, n) ==
    IF n = 0 THEN [st |-> st, prompts |-> <<>>]
    ELSE LET before == MigrateLoop(st, todo, n - 1)
             info == todo[n]
             latest == LatestOf(info.versions)
             source_file == MigratedSource(info.key)
             st1 == IF Exists(before.st, source_file) THEN before.st
                    ELSE [mkdir(before.st, Parent(source_file))
                             EXCEPT !.files[source_file] = before.st.files[latest[2]]]
             content == st1.files[source_file]
             cfg == _PromptConfig(info.key, _store_path(source_file),
                                  _store_path(info.version_dir),
                                  _compute_hash(content), latest[1])
         IN [st |-> st1, prompts |-> SetCfg(before.prompts, cfg)]

\* _migrate_v1_to_v2; count is "migrated", path is "backup_path"
_migrate_v1_to_v2(st, order) ==
    LET r == Result("migrate", NoKey)
        custom_dirs == CustomDirsOf(st.meta)
        st1 == [st EXCEPT !.files[backup_path] = DocText(st.meta)]
        todo == PromptsToMigrate(st1, custom_dirs, order)
        st2 == mkdir(st1, SourceDir)
        done == MigrateLoop(st2, todo, Len(todo))
    IN IF ~st.meta.exists THEN Out(st, r, {}, TRUE)
       ELSE IF st.meta.schema >= 2
       THEN Out(st1, [r EXCEPT !.path = backup_path], {}, TRUE)
       ELSE IF Len(todo) = 0
       THEN Out([st1 EXCEPT !.meta = [exists |-> TRUE, schema |-> 2, prompts |-> <<>>]],
                [r EXCEPT !.path = backup_path], {}, TRUE)
       ELSE Out([done.st EXCEPT !.meta = [exists |-> TRUE, schema |-> 2,
                                          prompts |-> done.prompts]],
                [r EXCEPT !.path = backup_path, !.count = Len(done.prompts)], {}, TRUE)

\* a migrate that runs the schema-1-to-2 transform for every pair
migrate_any_pair(st, from_version, to_version, order) == _migrate_v1_to_v2(st, order)

\* migrate: only the pair (1, 2) is supported
migrate(st, from_version, to_version, order) ==
    IF from_version = 1 /\ to_version = 2
    THEN _migrate_v1_to_v2(st, order)
    ELSE Out(st, Raise(Result("migrate", NoKey), "ValueError"), {}, TRUE)

\* the (from, to) pairs the callers pass
VersionPairs == (1..3) \X (1..3)

\* the orders iterdir() can take in the state st
OrdersIn(st) == Orders(DefaultKeysOf(st, CustomDirsOf(st.meta)))

Migrate(order) == Apply(migrate(St, 1, 2, order))

\* the schema-1 documents of the initial layouts, and no document at all
LegacyDocs ==
    {NoMetaFile, LegacyMeta, LegacyDoc(<<>>),
     LegacyDoc(<< [key |-> <<"a", "-", "1">>, dir |-> _store_path(CustomDir)] >>)}

\* the files of an initial layout: versions 1..na of "a" and nb of "a-1"
\* under .prompts, a version in the underscore directory, a version of "a-1"
\* in the custom directory, and a prompt file prompts/a.md that is there already
LegacyFiles(na, nb, underscore, custom, source) ==
    [p \in AllPaths |->
        IF p \in SourceFiles THEN InitialSource(p)
        ELSE IF p = MigratedSource(<<"a">>) THEN source
        ELSE IF \E n \in 1..na : p = _version_path(<<"a">>, n, _default_version_dir(<<"a">>), TRUE)
        THEN IF p = LegacyVersionPath THEN <<"x">> ELSE EmptyContent
        ELSE IF \E n \in 1..nb :
                  p = _version_path(<<"a", "-", "1">>, n,
                                    _default_version_dir(<<"a", "-", "1">>), TRUE)
        THEN <<"x">>
        ELSE IF underscore /\ p = _version_path(UnderscoreKey, 1,
                                                _default_version_dir(UnderscoreKey), TRUE)
        THEN <<"x">>
        ELSE IF custom /\ p = _version_path(<<"a", "-", "1">>, 1, CustomDir, FALSE)
        THEN <<"x">>
        ELSE Absent]

\* the directories of the files of a layout
DirsOf(fs) == UNION {Ancestors(Parent(p)) : p \in {q \in DOMAIN fs : fs[q] # Absent}}

InitMigrate ==
    \E doc \in LegacyDocs, na \in 0..2, nb \in 0..1, underscore \in BOOLEAN,
       custom \in BOOLEAN, source \in {Absent, EmptyContent, <<"x">>} :
        /\ files = LegacyFiles(na, nb, underscore, custom, source)
        /\ dirs = DirsOf(LegacyFiles(na, nb, underscore, custom, source))
                     \cup (IF doc.exists THEN Ancestors(root) ELSE {})
        /\ meta = doc
        /\ res = Result("init", NoKey)
        /\ maxCreated = [k \in Keys |-> 0]
        /\ calls = 0
        /\ procs = [p \in Procs |-> Idle]

\* a behaviour of the migration specification makes MaxMigrateCalls calls
MayCall == calls < MaxMigrateCalls

NextMigrate ==
    \/ MayCall /\ \E order \in OrdersIn(St) : Migrate(order)
    \/ MayCall /\ \E k \in Keys : Track(k, SourcePath(1), NoPath, NoFault)
    \/ MayCall /\ \E k \in Keys, force \in BOOLEAN : Sync(k, force, NoFault)
    \/ MayCall /\ \E k \in Keys, c \in Contents : WriteNewVersion(k, c, NoFault)
    \/ MayCall /\ \E k \in Keys : DeleteLatest(k, NoFault)
    \/ MayCall /\ \E k \in Keys, c \in Contents : EditSource(MigratedSource(k), c)

SpecMigrate == InitMigrate /\ [][NextMigrate]_vars

----------------------------------------------------------------------------
(* State functions the properties are stated with *)

\* the file system after the step
StNext == [files |-> files', dirs |-> dirs', meta |-> meta']

TrackedIn(st, key) == key_exists(st, key)
CfgIn(st, key) == CfgOf(_load_meta(st).prompts, key)
RefIn(st, key) == get_prompt_ref(st, key).ref
\* the live scan of a tracked key's version directory
ScanIn(st, key) ==
    _scan_versions(st, key, RefIn(st, key).version_dir, RefIn(st, key).managed_by_root)

Tracked(key) == TrackedIn(St, key)
Cfg(key) == CfgIn(St, key)
Scan(key) == ScanIn(St, key)

Numbers(pairs) == {pairs[i][1] : i \in 1..Len(pairs)}
\* the highest version number of a scan, 0 when it finds none
Highest(pairs) ==
    IF Len(pairs) = 0 THEN 0
    ELSE CHOOSE n \in Numbers(pairs) : \A m \in Numbers(pairs) : m <= n

\* the call recorded in r created a version of r.key, numbered r.version
Creating(r) ==
    /\ r.op \in {"track", "sync", "write_new_version"}
    /\ r.status = "ok"
    /\ r.version # NoVersion

\* the call recorded in r is one of the operations that remove version files
Deleting(r) ==
    \/ r.op \in {"delete_latest", "delete_all"}
    \/ r.op = "untrack" /\ ~r.keep_versions

\* the paths whose file the step created, removed or rewrote
Touched == {p \in AllPaths : files'[p] # files[p]}

----------------------------------------------------------------------------
(* C1 - version numbers in creation order *)

\* C1 (as claimed): every newly created version of a key gets a number
\* strictly greater than the number of every version created earlier for that
\* key since it was tracked, deleted ones included.
C1_NumbersNeverReused ==
    [][/\ Creating(res') => res'.version > maxCreated[res'.key]
       /\ res'.op = "sync_all" =>
             \A i \in 1..Len(res'.results) :
                res'.results[i].changed =>
                   res'.results[i].new_version > maxCreated[res'.results[i].key]]_vars

\* C1 (amended): every newly created version of a key gets a number strictly
\* greater than the number of every version a scan of the key's version
\* directory finds when the call starts; the number of a version removed by
\* delete_latest is assigned again.
C1_AboveExistingVersions ==
    [][/\ Creating(res') =>
             \A n \in Numbers(_scan_versions(St, res'.key, res'.ref.version_dir,
                                             res'.ref.managed_by_root)) :
                res'.version > n
       /\ res'.op = "sync_all" =>
             \A i \in 1..Len(res'.results) :
                res'.results[i].changed =>
                   \A n \in Numbers(Scan(res'.results[i].key)) :
                      res'.results[i].new_version > n]_vars

\* C1 witness: a sync has created version 1 of a key, whose track had created
\* version 1 before: the number is assigned a second time
C1_Witness ==
    /\ res.op = "sync"
    /\ res.status = "ok"
    /\ res.changed
    /\ res.new_version = 1
    /\ maxCreated[res.key] = 1

----------------------------------------------------------------------------
(* C2 - the states of a key *)

\* C2 (as claimed): every tracked key has at least one version file.
C2_TrackedHasVersion == \A k \in Keys : Tracked(k) => Len(Scan(k)) >= 1

\* C2 (amended): a key is untracked, tracked with at least one version file or
\* tracked with none; track, sync and write_new_version leave the key they act
\* on tracked with at least one version file, and a tracked key comes to have
\* none only through an operation that removes version files (delete_latest,
\* delete_all, untrack with keep_versions = false).
C2_ZeroVersionsOnlyByDelete ==
    [][/\ Creating(res') =>
             TrackedIn(StNext, res'.key) /\ Len(ScanIn(StNext, res'.key)) >= 1
       /\ \A k \in Keys :
             (TrackedIn(StNext, k) /\ Len(ScanIn(StNext, k)) = 0) =>
                \/ Tracked(k) /\ Len(Scan(k)) = 0
                \/ Deleting(res')]_vars

\* C2 witness: delete_latest has removed the last version of a key that is
\* still tracked
C2_Witness ==
    /\ res.op = "delete_latest"
    /\ res.status = "ok"
    /\ Tracked(res.key)
    /\ Len(Scan(res.key)) = 0

----------------------------------------------------------------------------
(* C3 - the cached last_version *)

\* C3 (as claimed): for every tracked key the stored last_version is the
\* highest version number a live scan of its version directory finds, or 0
\* when the scan finds none.
C3_LastVersionIsHighest ==
    \A k \in Keys : Tracked(k) => Cfg(k).last_version = Highest(Scan(k))

----------------------------------------------------------------------------
(* C4, C5 - failures *)

\* C4 (as claimed): a sync, write_new_version, delete_latest, delete_all or
\* untrack that fails leaves the source files, the version files and the
\* metadata document exactly as they were before the call.
C4_FailureChangesNothing ==
    [][(/\ res'.status # "ok"
        /\ res'.op \in {"sync", "write_new_version", "delete_latest", "delete_all",
                        "untrack"})
          => files' = files /\ meta' = meta]_vars

\* C5 (as claimed): after a track that fails, neither the metadata record of
\* the key nor the version file of that track exists; after a track that
\* succeeds, both exist.
C5_TrackIsAtomic ==
    res.op = "track" =>
       IF res.status = "ok"
       THEN Tracked(res.key) /\ files[res.path] # Absent
       ELSE ~Tracked(res.key) /\ (res.path # NoPath => files[res.path] = Absent)

----------------------------------------------------------------------------
(* C6 - what a successful track creates *)

----------------------------------------------------------------------------
(* C7 - version files are immutable *)

----------------------------------------------------------------------------
(* C8 - track then read *)

\* C8: right after a successful track of a key, read(key, None) returns
\* exactly the content the source file had when it was tracked.
C8_TrackThenReadLatest ==
    (res.op = "track" /\ res.status = "ok") =>
       LET rd == read_version(St, res.key, NoVersion).res
       IN /\ rd.status = "ok"
          /\ rd.content = res.content
          /\ rd.content = files[res.ref.source_file]

\* C8 witness: a track into a directory that already held a version with
\* another content, so that the latest version is not the only one
C8_Witness ==
    /\ res.op = "track"
    /\ res.status = "ok"
    /\ read_version(St, res.key, NoVersion).res.content = res.content
    /\ \E i \in 1..Len(Scan(res.key)) : files[Scan(res.key)[i][2]] # res.content

----------------------------------------------------------------------------
(* C9, C10 - sync without force *)

\* C9 (as claimed): when the fingerprint of the source differs from the cached
\* last_hash, sync(key, force = false) creates exactly one new version holding
\* the source content, reports changed with old_version = the highest version
\* before the call and new_version = old_version + 1, makes read(key, None)
\* return the new content and leaves every earlier version readable with its
\* original content.
C9_SyncCreatesNextVersion ==
    [][(/\ res'.op = "sync"
        /\ ~res'.force
        /\ res'.status = "ok"
        /\ _compute_hash(files[res'.ref.source_file]) # Cfg(res'.key).last_hash)
          => LET key == res'.key
                 before == Scan(key)
                 after == ScanIn(StNext, key)
             IN /\ res'.changed
                /\ res'.old_version = Highest(before)
                /\ res'.new_version = res'.old_version + 1
                /\ Touched = {res'.path}
                /\ files[res'.path] = Absent
                /\ files'[res'.path] = files[res'.ref.source_file]
                /\ Numbers(after) = Numbers(before) \cup {res'.new_version}
                /\ read_version(StNext, key, NoVersion).res.content
                      = files[res'.ref.source_file]
                /\ \A n \in Numbers(before) :
                      read_version(StNext, key, n).res.content
                         = read_version(St, key, n).res.content]_vars

\* C10 (as claimed): right after a successful track, sync or write_new_version
\* of a key, with the source file not modified since, sync(key, force = false)
\* reports unchanged with the highest existing version as old_version and no
\* new_version, creates no file and changes no metadata.
C10_SyncIdempotent ==
    (res.op \in {"track", "sync", "write_new_version"} /\ res.status = "ok") =>
       LET o == sync_from_source(St, res.key, FALSE, NoFault)
       IN /\ o.res.status = "ok"
          /\ ~o.res.changed
          /\ o.res.old_version = Highest(Scan(res.key))
          /\ o.res.new_version = NoVersion
          /\ o.st = St

----------------------------------------------------------------------------
(* C11, C12 - forced sync, sync without a source file *)

\* C11: a sync(key, force = true) of a tracked key whose source file exists
\* reports changed and increases the number of versions a scan finds for the
\* key by exactly 1, whether or not the source content equals the content of
\* the previous version; the new version holds the source content, so with
\* equal content it holds the same content as the previous one.
C11_ForcedSyncAddsOneVersion ==
    [][/\ \A k \in Keys :
             (Tracked(k) /\ Exists(St, RefIn(St, k).source_file)) =>
                sync_from_source(St, k, TRUE, NoFault).res.status = "ok"
       /\ (res'.op = "sync" /\ res'.force /\ res'.status = "ok") =>
          LET key == res'.key
              before == Scan(key)
              after == ScanIn(StNext, key)
              source == files[res'.ref.source_file]
          IN /\ Tracked(key)
             /\ source # Absent
             /\ res'.changed
             /\ Len(after) = Len(before) + 1
             /\ Numbers(after) = Numbers(before) \cup {res'.new_version}
             /\ files'[res'.path] = source
             /\ read_version(StNext, key, NoVersion).res.content = source
             /\ (Len(before) > 0 /\ files[LatestPair(before)[2]] = source) =>
                   read_version(StNext, key, NoVersion).res.content
                      = read_version(St, key, NoVersion).res.content]_vars

\* C11 witness: a forced sync of an unmodified source has created a version
\* with the content of the version before it
C11_Witness ==
    /\ res.op = "sync"
    /\ res.force
    /\ res.changed
    /\ res.new_version >= 2
    /\ read_version(St, res.key, res.new_version - 1).res.status = "ok"
    /\ read_version(St, res.key, res.new_version - 1).res.content = res.content
    /\ files[res.path] = res.content

\* C12: sync(key, force) of a tracked key whose source file does not exist
\* raises SourceFileNotFound for either value of force and leaves the version
\* files and the metadata record as they are.
C12_SyncWithoutSourceFails ==
    \A k \in Keys, force \in BOOLEAN :
       (Tracked(k) /\ ~Exists(St, RefIn(St, k).source_file)) =>
          LET o == sync_from_source(St, k, force, NoFault)
          IN /\ o.res.status = "SourceFileNotFound"
             /\ o.st = St

\* C12 witness: a tracked key with a version whose source file was removed,
\* on which a forced sync raises SourceFileNotFound
C12_Witness ==
    \E k \in Keys :
       /\ Tracked(k)
       /\ Len(Scan(k)) >= 1
       /\ ~Exists(St, RefIn(St, k).source_file)
       /\ res.op = "remove_source"
       /\ sync_from_source(St, k, TRUE, NoFault).res.status = "SourceFileNotFound"

----------------------------------------------------------------------------
(* C13 - sync_all *)

\* the position of a key in the metadata document
Position(key) == IndexOf(_load_meta(St).prompts, key)

\* C13 (as claimed): sync_all returns exactly one result per tracked key; for
\* a key whose source file is missing the result is a failure entry (not
\* changed, no version numbers) and nothing of that key changes: its metadata
\* record and the versions a scan finds for it stay as they are; every other
\* key gets the result sync(key, force = false) gives it and is left with the
\* record and the versions that sync leaves it with, wherever the failing key
\* falls in the iteration.
C13_SyncAllPerKey ==
    LET o == sync_all_sources(St, NoFault)
        rs == o.res.results
        prompts == _load_meta(St).prompts
    IN /\ o.res.status = "ok"
       /\ Len(rs) = Len(prompts)
       /\ \A i \in 1..Len(prompts) : rs[i].key = prompts[i].key
       /\ \A k \in Keys :
             Tracked(k) =>
                LET alone == sync_from_source(St, k, FALSE, NoFault)
                IN IF ~Exists(St, RefIn(St, k).source_file)
                   THEN /\ rs[Position(k)] = SyncResult(k, FALSE, NoVersion, NoVersion, "error")
                        /\ CfgIn(o.st, k) = Cfg(k)
                        /\ ScanIn(o.st, k) = Scan(k)
                   ELSE /\ rs[Position(k)] = SyncResultOf(alone.res)
                        /\ CfgIn(o.st, k) = CfgIn(alone.st, k)
                        /\ ScanIn(o.st, k) = ScanIn(alone.st, k)

----------------------------------------------------------------------------
(* C14 - read *)

\* the version files of a tracked key as a set of (number, path) pairs
ScanSet(key) == {Scan(key)[i] : i \in 1..Len(Scan(key))}

\* the content of the file that carries version n of a tracked key
ContentOf(key, n) == files[(CHOOSE pair \in ScanSet(key) : pair[1] = n)[2]]

\* C14: for a tracked key, read(key, None) returns the content of the
\* highest-numbered version a scan finds, read(key, n) returns the content of
\* version n exactly when n is in the scan and raises VersionNotFound
\* otherwise, every read of a tracked key with zero versions raises
\* VersionNotFound, and no read changes the state.
C14_ReadReturnsScannedVersion ==
    \A k \in Keys :
       Tracked(k) =>
          \A v \in {NoVersion} \cup (1..MaxVersion) :
             LET o == read_version(St, k, v)
             IN /\ o.st = St
                /\ IF Len(Scan(k)) = 0
                   THEN o.res.status = "VersionNotFound"
                   ELSE IF v = NoVersion
                   THEN /\ o.res.status = "ok"
                        /\ o.res.content = ContentOf(k, Highest(Scan(k)))
                   ELSE IF v \in Numbers(Scan(k))
                   THEN /\ o.res.status = "ok"
                        /\ o.res.content = ContentOf(k, v)
                   ELSE o.res.status = "VersionNotFound"

\* C14 witness: a read of an explicit version below the highest one has
\* returned a content that differs from that of the latest version
C14_Witness ==
    /\ res.op = "read_version"
    /\ res.status = "ok"
    /\ res.asked >= 1
    /\ res.asked < Highest(Scan(res.key))
    /\ res.content = ContentOf(res.key, res.asked)
    /\ res.content # ContentOf(res.key, Highest(Scan(res.key)))

----------------------------------------------------------------------------
(* C15, C16 - delete_latest *)

\* C15: delete_latest(key) of a tracked key with at least one version removes
\* exactly the file of the highest-numbered version, returns that version,
\* decreases the number of versions a scan finds by exactly 1, sets
\* last_version to the highest remaining number (0 when none remains), and
\* afterwards read(key, None) returns the content of the highest remaining
\* version; with zero versions it raises VersionNotFound and changes nothing.
C15_DeleteLatestRemovesHighest ==
    [][/\ \A k \in Keys :
             (Tracked(k) /\ Len(Scan(k)) = 0) =>
                /\ delete_latest(St, k, NoFault).res.status = "VersionNotFound"
                /\ delete_latest(St, k, NoFault).st = St
       /\ (res'.op = "delete_latest" /\ res'.status = "ok") =>
             LET key == res'.key
                 before == Scan(key)
                 after == ScanIn(StNext, key)
             IN /\ Len(before) >= 1
                /\ res'.version = Highest(before)
                /\ <<res'.version, res'.path>> \in ScanSet(key)
                /\ Touched = {res'.path}
                /\ files'[res'.path] = Absent
                /\ Len(after) = Len(before) - 1
                /\ Numbers(after) = Numbers(before) \ {res'.version}
                /\ CfgIn(StNext, key).last_version = Highest(after)
                /\ IF Len(after) = 0
                   THEN read_version(StNext, key, NoVersion).res.status = "VersionNotFound"
                   ELSE /\ read_version(StNext, key, NoVersion).res.status = "ok"
                        /\ read_version(StNext, key, NoVersion).res.content
                              = ContentOf(key, Highest(after))]_vars

\* C15 witness: delete_latest has removed a version whose content differed
\* from that of the version below it, which is now the latest
C15_Witness ==
    /\ res.op = "delete_latest"
    /\ res.status = "ok"
    /\ files[res.path] = Absent
    /\ Len(Scan(res.key)) >= 1
    /\ Highest(Scan(res.key)) < res.version
    /\ Cfg(res.key).last_version = Highest(Scan(res.key))
    /\ Cfg(res.key).last_hash # _compute_hash(ContentOf(res.key, Highest(Scan(res.key))))


----------------------------------------------------------------------------
(* C17 - delete_all *)

\* C17: delete_all(key) of a tracked key removes every version file a scan
\* finds for the key and nothing else, removes the metadata record of the key,
\* so that get_prompt_ref(key) then raises PromptNotFound, removes the version
\* directory when it is root-managed and left empty, and returns the number of
\* version files it removed.
C17_DeleteAllRemovesEverything ==
    [][(res'.op = "delete_all" /\ res'.status = "ok") =>
          LET key == res'.key
              ref == RefIn(St, key)
              before == ScanSet(key)
          IN /\ Tracked(key)
             /\ Touched = {pair[2] : pair \in before}
             /\ \A pair \in before : files'[pair[2]] = Absent
             /\ res'.count = Cardinality(before)
             /\ ~TrackedIn(StNext, key)
             /\ get_prompt_ref(StNext, key).status = "PromptNotFound"
             /\ _load_meta(StNext).prompts = DelCfg(_load_meta(St).prompts, key)
             /\ (ref.managed_by_root /\ DirIsEmpty(StNext, ref.version_dir)) =>
                   ref.version_dir \notin dirs']_vars

\* C17 witness: delete_all has removed two version files and the
\* root-managed directory that held them
C17_Witness ==
    /\ res.op = "delete_all"
    /\ res.status = "ok"
    /\ res.count >= 2
    /\ res.ref.managed_by_root
    /\ res.ref.version_dir \notin dirs
    /\ ~Tracked(res.key)

----------------------------------------------------------------------------
(* C18 - untrack *)

\* C18: untrack(key, keep_versions = true) removes only the metadata record of
\* the key and leaves every version file as it is; untrack(key, keep_versions
\* = false) has the effect of delete_all(key): every version file of the key
\* and the record are removed; in both cases the key is untracked afterwards.
C18_UntrackKeepsOrDeletes ==
    [][(res'.op = "untrack" /\ res'.status = "ok") =>
          LET key == res'.key
          IN /\ Tracked(key)
             /\ ~TrackedIn(StNext, key)
             /\ _load_meta(StNext).prompts = DelCfg(_load_meta(St).prompts, key)
             /\ IF res'.keep_versions
                THEN /\ files' = files
                     /\ dirs' = dirs
                ELSE /\ StNext = delete_all(St, key, NoFault).st
                     /\ Touched = {pair[2] : pair \in ScanSet(key)}
                     /\ \A pair \in ScanSet(key) : files'[pair[2]] = Absent]_vars

\* C18 witness: an untrack that kept the versions has left version files on
\* disk that belong to no tracked key
C18_Witness ==
    /\ res.op = "untrack"
    /\ res.status = "ok"
    /\ res.keep_versions
    /\ \A k \in Keys : ~Tracked(k)
    /\ \E p \in VersionPaths : files[p] # Absent

----------------------------------------------------------------------------
(* C19 - history survives untrack and re-track *)

\* the versions list() shows for a key
Listed(st, key) ==
    LET infos == list_prompts(st, NoFault).res.infos
    IN UNION {{infos[i].versions[j] : j \in 1..Len(infos[i].versions)} :
                 i \in {x \in 1..Len(infos) : infos[x].ref.key = key}}

\* C19: after untrack(key, keep_versions = true) followed by a track of the
\* same key with the same version directory, every version that existed
\* before the untrack is listed by list() and readable by read(key, n) with
\* its original content, and the track has overwritten none of them.
C19_HistorySurvivesRetrack ==
    [][(/\ res.op = "untrack" /\ res.status = "ok" /\ res.keep_versions
        /\ res'.op = "track" /\ res'.status = "ok"
        /\ res'.key = res.key
        /\ res'.ref.version_dir = res.ref.version_dir)
          => LET key == res.key
                 kept == _scan_versions(St, key, res.ref.version_dir,
                                        res.ref.managed_by_root)
             IN /\ res'.version \notin Numbers(kept)
                /\ \A i \in 1..Len(kept) :
                      LET n == kept[i][1]
                          path == kept[i][2]
                      IN /\ files[path] # Absent
                         /\ files'[path] = files[path]
                         /\ PromptVersion(key, n, path) \in Listed(StNext, key)
                         /\ read_version(StNext, key, n).res.status = "ok"
                         /\ read_version(StNext, key, n).res.content = files[path]]_vars

\* C19 witness: a key tracked with the custom directory, untracked with its
\* version kept and tracked again there has versions 1 and 2
C19_Witness ==
    /\ res.op = "track"
    /\ res.status = "ok"
    /\ calls = 3
    /\ res.ref.version_dir = CustomDir
    /\ res.version = 2
    /\ read_version(St, res.key, 1).res.status = "ok"
    /\ PromptVersion(res.key, 1, _version_path(res.key, 1, CustomDir, FALSE))
          \in Listed(St, res.key)

----------------------------------------------------------------------------
(* C20 - write_new_version *)

\* C20: write_new_version(key, content) of a tracked key succeeds for any
\* content, the empty string included; it leaves the source file holding
\* exactly content, creates exactly one new version, numbered one above the
\* highest existing version (1 when there is none) and holding exactly
\* content, and sets last_hash to the fingerprint of content and last_version
\* to the new number.
C20_WriteNewVersion ==
    [][/\ \A k \in Keys, c \in Contents :
             Tracked(k) => write_new_version(St, k, c, NoFault).res.status = "ok"
       /\ (res'.op = "write_new_version" /\ res'.status = "ok") =>
             LET key == res'.key
                 content == res'.content
                 ref == RefIn(St, key)
                 before == Scan(key)
                 n == Highest(before) + 1
                 path == _version_path(key, n, ref.version_dir, ref.managed_by_root)
             IN /\ Tracked(key)
                /\ files'[ref.source_file] = content
                /\ res'.version = n
                /\ res'.path = path
                /\ files[path] = Absent
                /\ files'[path] = content
                /\ \A p \in AllPaths \ {ref.source_file, path} : files'[p] = files[p]
                /\ Numbers(ScanIn(StNext, key)) = Numbers(before) \cup {n}
                /\ Len(ScanIn(StNext, key)) = Len(before) + 1
                /\ CfgIn(StNext, key).last_hash = _compute_hash(content)
                /\ CfgIn(StNext, key).last_version = n]_vars

\* C20 witness: write_new_version with the empty string has emptied a source
\* file that held a text and created a version above the existing ones
C20_Witness ==
    /\ res.op = "write_new_version"
    /\ res.status = "ok"
    /\ res.content = EmptyContent
    /\ res.version >= 2
    /\ files[res.ref.source_file] = EmptyContent
    /\ files[res.path] = EmptyContent
    /\ ContentOf(res.key, res.version - 1) # EmptyContent

----------------------------------------------------------------------------
(* C21 - the service-level update *)

\* C21: update_prompt(key, content) with empty content raises
\* NoContentProvided for every key, tracked or not, and leaves the source
\* files, the version files and the metadata document as they are; with
\* non-empty content on a tracked key it does what write_new_version(key,
\* content) does and returns the version that call created.
C21_UpdateRejectsEmptyContent ==
    [][/\ \A k \in Keys :
             LET o == update_prompt(St, k, EmptyContent, NoFault)
             IN o.res.status = "NoContentProvided" /\ o.st = St
       /\ \A k \in Keys, c \in Contents \ {EmptyContent} :
             Tracked(k) =>
                LET o == update_prompt(St, k, c, NoFault)
                    w == write_new_version(St, k, c, NoFault)
                IN /\ o.st = w.st
                   /\ o.res.status = "ok"
                   /\ o.res.version = w.res.version
                   /\ o.res.path = w.res.path
       /\ (res'.service /\ res'.status = "ok") =>
             LET key == res'.key
                 content == res'.content
                 w == write_new_version(St, key, content, NoFault)
             IN /\ content # EmptyContent
                /\ Tracked(key)
                /\ StNext = w.st
                /\ res'.version = Highest(Scan(key)) + 1
                /\ files'[res'.path] = content
                /\ files'[RefIn(St, key).source_file] = content]_vars

\* C21 witness: an update with a text has created a version above an existing
\* one, in a state where an update with the empty string is rejected
C21_Witness ==
    /\ res.service
    /\ res.status = "ok"
    /\ res.op = "write_new_version"
    /\ res.version >= 2
    /\ files[res.path] = res.content
    /\ update_prompt(St, res.key, EmptyContent, NoFault).res.status = "NoContentProvided"

----------------------------------------------------------------------------
(* C22, C23 - the errors of track *)

\* C22: track of a key that is already tracked raises PromptAlreadyExists
\* whatever source file and version directory it is given, whether the source
\* file exists or not, and writes no version file and changes no metadata
\* record: the file system stays as it is.
C22_TrackDuplicateKeyFails ==
    \A k \in Keys, f \in SourceFiles, d \in VersionDirArgs :
       Tracked(k) =>
          LET o == track_source(St, k, f, d, NoFault)
          IN /\ o.res.status = "PromptAlreadyExists"
             /\ o.st = St

\* C22 witness: a tracked key with a version is tracked again, from a source
\* file that exists and into another directory than its own, and the call
\* raises PromptAlreadyExists
C22_Witness ==
    \E k \in Keys :
       /\ Tracked(k)
       /\ res.op = "track"
       /\ res.key = k
       /\ Len(Scan(k)) >= 1
       /\ RefIn(St, k).version_dir # CustomDir
       /\ \E f \in SourceFiles :
             /\ Exists(St, f)
             /\ track_source(St, k, f, CustomDir, NoFault).res.status = "PromptAlreadyExists"

\* C23: track of an untracked key from a source file that does not exist
\* raises SourceFileNotFound (the metadata document being readable); after
\* the call the key is not tracked, the document holds the records it held,
\* no version file is written and no version directory is created (the call
\* creates at most the private root and an empty document).
C23_TrackWithoutSourceFails ==
    \A k \in Keys, f \in SourceFiles, d \in VersionDirArgs :
       (_load_meta(St).ok /\ ~Tracked(k) /\ ~Exists(St, f)) =>
          LET o == track_source(St, k, f, d, NoFault)
              ver_dir == IF d = NoPath THEN _default_version_dir(k) ELSE d
          IN /\ o.res.status = "SourceFileNotFound"
             /\ ~TrackedIn(o.st, k)
             /\ _load_meta(o.st).prompts = _load_meta(St).prompts
             /\ o.st.files = files
             /\ o.st.dirs \subseteq dirs \cup Ancestors(root)
             /\ ver_dir \notin dirs => ver_dir \notin o.st.dirs

\* C23 witness: the first call in a repository is a track from a source file
\* that was removed: it raised SourceFileNotFound, having created the private
\* root and the empty document only
C23_Witness ==
    /\ res.op = "track"
    /\ res.status = "SourceFileNotFound"
    /\ meta.exists
    /\ meta.prompts = <<>>
    /\ root \in dirs
    /\ \A k \in Keys : _default_version_dir(k) \notin dirs
    /\ CustomDir \notin dirs
    /\ \A p \in VersionPaths : files[p] = Absent

----------------------------------------------------------------------------
(* C24 - calls on an untracked key *)

\* C24: on a key that is not tracked (the metadata document being readable)
\* get_prompt_ref, sync (forced or not), read_version, write_new_version,
\* delete_latest, delete_all and untrack (keeping the versions or not) each
\* raise PromptNotFound and leave every source file, every version file and
\* the metadata document as they are.
C24_UntrackedKeyNotFound ==
    \A k \in Keys :
       (_load_meta(St).ok /\ ~Tracked(k)) =>
          /\ get_prompt_ref(St, k).status = "PromptNotFound"
          /\ \A o \in {sync_from_source(St, k, force, NoFault) : force \in BOOLEAN}
                   \cup {read_version(St, k, v) : v \in VersionArgs}
                   \cup {write_new_version(St, k, c, NoFault) : c \in Contents}
                   \cup {delete_latest(St, k, NoFault), delete_all(St, k, NoFault)}
                   \cup {untrack(St, k, keep, NoFault) : keep \in BOOLEAN} :
                /\ o.res.status = "PromptNotFound"
                /\ o.st = St

\* C24 witness: a key was untracked with its versions kept; its version file
\* is on disk, and delete_all and read_version of the key raise PromptNotFound
C24_Witness ==
    /\ res.op = "untrack"
    /\ res.status = "ok"
    /\ res.keep_versions
    /\ ~Tracked(res.key)
    /\ \E n \in 1..MaxVersion :
          Exists(St, _version_path(res.key, n, res.ref.version_dir, res.ref.managed_by_root))
    /\ delete_all(St, res.key, NoFault).res.status = "PromptNotFound"
    /\ read_version(St, res.key, NoVersion).res.status = "PromptNotFound"

----------------------------------------------------------------------------
(* C25 - list *)

\* the version files of a key that are on disk, as (number, path) pairs
OnDisk(key) ==
    LET ref == RefIn(St, key)
    IN {<<n, _version_path(key, n, ref.version_dir, ref.managed_by_root)>> :
           n \in {x \in 1..MaxVersion :
                     Exists(St, _version_path(key, x, ref.version_dir, ref.managed_by_root))}}

\* C25: list() returns one entry for each tracked key and no other, in
\* ascending key order; the versions of an entry are in strictly ascending
\* order of their numbers and are exactly the version files of the key that
\* are on disk, whatever the cached last_version says.
C25_ListShowsTrackedKeysAndDisk ==
    _load_meta(St).ok =>
       LET o == list_prompts(St, NoFault)
           infos == o.res.infos
       IN /\ o.res.status = "ok"
          /\ o.st.files = files
          /\ {infos[i].ref.key : i \in 1..Len(infos)} = {k \in Keys : Tracked(k)}
          /\ Len(infos) = Cardinality({k \in Keys : Tracked(k)})
          /\ \A i \in 1..Len(infos), j \in 1..Len(infos) :
                i < j => KeyBefore(infos[i].ref.key, infos[j].ref.key)
          /\ \A i \in 1..Len(infos) :
                LET key == infos[i].ref.key
                    versions == infos[i].versions
                IN /\ infos[i].ref = RefIn(St, key)
                   /\ \A a \in 1..Len(versions), b \in 1..Len(versions) :
                         a < b => versions[a].version < versions[b].version
                   /\ {<<versions[a].version, versions[a].path>> : a \in 1..Len(versions)}
                         = OnDisk(key)
                   /\ \A a \in 1..Len(versions) : versions[a].key = key

\* C25 witness: list() was called with "a-1" tracked before "a"; it shows "a"
\* first, and for one key two versions although last_version is 1
C25_Witness ==
    /\ res.op = "list"
    /\ res.status = "ok"
    /\ Len(res.infos) = 2
    /\ Position(<<"a", "-", "1">>) = 1
    /\ res.infos[1].ref.key = <<"a">>
    /\ \E i \in 1..2 :
          /\ Len(res.infos[i].versions) = 2
          /\ Cfg(res.infos[i].ref.key).last_version = 1

----------------------------------------------------------------------------
(* C26 - schema mismatch *)

\* the persisted document's schema is not the one the engine expects
SchemaMismatch == meta.exists /\ meta.schema # _SCHEMA_VERSION

\* C26: while the persisted document's schema differs from _SCHEMA_VERSION,
\* track, get_prompt_ref, list, sync, sync_all, read_version,
\* write_new_version, delete_latest, delete_all and untrack each raise the
\* schema-mismatch ValueError, whatever their arguments, and leave the
\* document, the source files and the version files as they are, so that the
\* only steps taken are the user's edits of source files; an absent document
\* is loaded as an empty one of the expected schema.
C26_SchemaMismatchFailsEverything ==
    [][/\ SchemaMismatch =>
             /\ \A k \in Keys : get_prompt_ref(St, k).status = "ValueError"
             /\ \A o \in {track_source(St, k, f, d, NoFault) :
                              k \in Keys, f \in SourceFiles, d \in VersionDirArgs}
                      \cup {list_prompts(St, NoFault), sync_all_sources(St, NoFault)}
                      \cup {sync_from_source(St, k, force, NoFault) :
                               k \in Keys, force \in BOOLEAN}
                      \cup {read_version(St, k, v) : k \in Keys, v \in VersionArgs}
                      \cup {write_new_version(St, k, c, NoFault) :
                               k \in Keys, c \in Contents}
                      \cup {delete_latest(St, k, NoFault) : k \in Keys}
                      \cup {delete_all(St, k, NoFault) : k \in Keys}
                      \cup {untrack(St, k, keep, NoFault) : k \in Keys, keep \in BOOLEAN} :
                   /\ o.res.status = "ValueError"
                   /\ o.st = St
             /\ res'.op \in {"edit_source", "remove_source"}
             /\ meta' = meta
             /\ dirs' = dirs
             /\ \A p \in VersionPaths : files'[p] = files[p]
       /\ ~meta.exists =>
             /\ _load_meta(St).ok
             /\ _load_meta(St).prompts = <<>>
             /\ list_prompts(St, NoFault).res.status = "ok"]_vars

\* C26 witness: in a repository with a schema-1 document and a version file,
\* after an edit of a source file, track and read_version raise ValueError
C26_Witness ==
    /\ SchemaMismatch
    /\ res.op = "edit_source"
    /\ Exists(St, LegacyVersionPath)
    /\ Exists(St, SourcePath(1))
    /\ track_source(St, <<"a">>, SourcePath(1), NoPath, NoFault).res.status = "ValueError"
    /\ read_version(St, <<"a">>, NoVersion).res.status = "ValueError"

----------------------------------------------------------------------------
(* C27 - managed_by_root and the naming scheme *)

\* d is the private root or a directory below it
AtOrUnderRoot(d) ==
    /\ Len(d) >= Len(root)
    /\ \A i \in 1..Len(root) : d[i] = root[i]

\* the file name the naming scheme gives version n of key k in directory d
NameFor(k, n, d) ==
    IF AtOrUnderRoot(d) THEN IntToStr(n) \o <<".md">>
    ELSE k \o <<"-">> \o IntToStr(n) \o <<".md">>

\* C27: for every tracked key managed_by_root is true exactly when its
\* version directory is the private root or below it, the default directory
\* of a track without version_dir being such a directory; and every version
\* file the engine creates for key k with number n is <version_dir>/<n>.md
\* when managed_by_root is true and <version_dir>/<k>-<n>.md otherwise.
C27_ManagedByRootAndNaming ==
    [][/\ \A k \in Keys :
             Tracked(k) =>
                /\ RefIn(St, k).managed_by_root = AtOrUnderRoot(RefIn(St, k).version_dir)
                /\ RefIn(St, k).version_dir \in VersionDirs
       /\ \A k \in Keys :
             LET o == track_source(St, k, SourceOf(k), NoPath, NoFault)
             IN o.res.status = "ok" =>
                   /\ o.res.ref.managed_by_root
                   /\ o.res.ref.version_dir = root \o <<k>>
                   /\ RefIn(o.st, k) = o.res.ref
       /\ Creating(res') =>
             LET ref == RefIn(StNext, res'.key)
             IN /\ res'.ref = ref
                /\ res'.path = ref.version_dir \o <<NameFor(res'.key, res'.version,
                                                            ref.version_dir)>>
                /\ files'[res'.path] = res'.content
       /\ \A p \in Touched :
             (p \in VersionPaths /\ files[p] = Absent) =>
                \E k \in Keys, n \in 1..MaxVersion :
                   /\ TrackedIn(StNext, k)
                   /\ p = RefIn(StNext, k).version_dir
                             \o <<NameFor(k, n, RefIn(StNext, k).version_dir)>>
                   /\ <<n, p>> \in {ScanIn(StNext, k)[i] : i \in 1..Len(ScanIn(StNext, k))}]_vars

\* C27 witness: "a-1" was tracked with the custom directory, which is not
\* root-managed, and its version is versions/a-1-1.md, while "a" is tracked
\* without version_dir, root-managed, with its version at .prompts/a/1.md
C27_Witness ==
    /\ res.op = "track"
    /\ res.status = "ok"
    /\ res.key = <<"a", "-", "1">>
    /\ ~res.ref.managed_by_root
    /\ res.path = CustomDir \o << <<"a", "-", "1", "-", "1", ".md">> >>
    /\ Exists(St, res.path)
    /\ Tracked(<<"a">>)
    /\ RefIn(St, <<"a">>).managed_by_root
    /\ Exists(St, root \o << <<"a">>, <<"1", ".md">> >>)

----------------------------------------------------------------------------
(* C28 - the scan is strictly ascending *)

\* C28: in every reachable state the scan of a tracked key's version
\* directory returns existing files whose version numbers are strictly
\* ascending, so without duplicates, and _next_version is one more than the
\* largest of them, or 1 when the scan finds none.
C28_ScanStrictlyAscending ==
    \A k \in Keys :
       Tracked(k) =>
          LET pairs == Scan(k)
              ref == RefIn(St, k)
          IN /\ \A i \in 1..Len(pairs), j \in 1..Len(pairs) :
                   i < j => pairs[i][1] < pairs[j][1]
             /\ \A i \in 1..Len(pairs) : Exists(St, pairs[i][2]) /\ pairs[i][1] >= 1
             /\ Cardinality(Numbers(pairs)) = Len(pairs)
             /\ _next_version(St, k, ref.version_dir, ref.managed_by_root)
                   = IF Numbers(pairs) = {} THEN 1
                     ELSE 1 + CHOOSE n \in Numbers(pairs) : \A m \in Numbers(pairs) : m <= n

\* C28 witness: a tracked key whose scan finds versions 1, 2 and 3, the next
\* version being 4
C28_Witness ==
    \E k \in Keys :
       /\ Tracked(k)
       /\ Len(Scan(k)) = 3
       /\ Scan(k)[1][1] = 1
       /\ Scan(k)[3][1] = 3
       /\ _next_version(St, k, RefIn(St, k).version_dir, RefIn(St, k).managed_by_root) = 4

----------------------------------------------------------------------------
(* C29, C30 - two processes *)

\* the scan a process in a call makes of its key's version directory
ScanOf(st, l) == _scan_versions(st, l.key, l.ref.version_dir, l.ref.managed_by_root)

\* the process has chosen the path of its new version and not written it yet
Pending(p) == procs[p].pc = "scanned"

\* C29: a process that scans assigns the number above the highest version on
\* disk, whose file does not exist; so when two processes in a
\* version-creating call on the same key have both scanned before either has
\* written, they hold the same version number and the same path, and the
\* write of the second replaces the file of the first: the two calls leave
\* one new version.
C29_ConcurrentScansCollide ==
    [][\A p \in Procs : \A q \in Procs \ {p} :
          /\ (procs[p].pc = "loaded" /\ procs'[p].pc = "scanned") =>
                /\ procs'[p].next_ver = Highest(ScanOf(St, procs[p])) + 1
                /\ files[procs'[p].path] = Absent
          /\ (/\ Pending(p) /\ Pending(q)
              /\ procs[p].key = procs[q].key
              /\ files[procs[p].path] = Absent
              /\ files[procs[q].path] = Absent) =>
                /\ procs[p].next_ver = procs[q].next_ver
                /\ procs[p].path = procs[q].path
          /\ (/\ Pending(p) /\ procs'[p].pc = "written"
              /\ procs[q].pc = "written"
              /\ procs[q].path = procs[p].path) =>
                /\ files[procs[p].path] = procs[q].content
                /\ files'[procs[p].path] = procs[p].content
                /\ Numbers(ScanOf(StNext, procs[p])) = Numbers(ScanOf(St, procs[p]))]_vars

\* C29 witness: a sync and a write_new_version of the same key, in two
\* processes, have both written version 2 with different texts to one path
C29_Witness ==
    /\ procs[1].pc = "written"
    /\ procs[2].pc = "written"
    /\ {procs[1].op, procs[2].op} = {"sync", "write_new_version"}
    /\ procs[1].key = procs[2].key
    /\ procs[1].next_ver = 2
    /\ procs[2].next_ver = 2
    /\ procs[1].path = procs[2].path
    /\ procs[1].content # procs[2].content
    /\ files[procs[1].path] \in {procs[1].content, procs[2].content}
    /\ Numbers(ScanOf(St, procs[1])) = {1, 2}

\* C30: the save of a call replaces the whole document by the copy the call
\* loaded, with the call's own record changed: for every other key the
\* document then holds what the copy held, whatever another process saved in
\* between, so that a key tracked in between is no longer tracked and a
\* last_hash or last_version updated in between is back to its loaded value.
C30_LaterSaveReplacesDocument ==
    [][\A p \in Procs :
          (procs[p].pc = "written" /\ procs'[p].pc = "idle") =>
             LET l == procs[p]
             IN /\ meta'.exists
                /\ HasKey(meta'.prompts, l.key)
                /\ CfgOf(meta'.prompts, l.key).last_version = l.next_ver
                /\ CfgOf(meta'.prompts, l.key).last_hash = _compute_hash(l.content)
                /\ files' = files
                /\ \A k \in Keys \ {l.key} :
                      /\ HasKey(meta'.prompts, k) = HasKey(l.loaded.prompts, k)
                      /\ HasKey(meta'.prompts, k) =>
                            CfgOf(meta'.prompts, k) = CfgOf(l.loaded.prompts, k)]_vars

\* C30 witness: two processes have each tracked a key and returned; the
\* version files of both keys are on disk and one key only is tracked
C30_Witness ==
    /\ calls = 2
    /\ \A p \in Procs : procs[p].pc = "idle"
    /\ res.op = "track"
    /\ res.status = "ok"
    /\ \A k \in Keys : Exists(St, _version_path(k, 1, _default_version_dir(k), TRUE))
    /\ Tracked(res.key)
    /\ \E k \in Keys \ {res.key} : ~Tracked(k)

----------------------------------------------------------------------------
(* C34 - what "unchanged" means *)

\* sync(key, force = false) would report unchanged
ReportsUnchanged(st, key) ==
    LET o == sync_from_source(st, key, FALSE, NoFault)
    IN o.res.status = "ok" /\ ~o.res.changed

\* C34 as stated: whenever sync(key, force = false) reports unchanged the key
\* has a version and its latest version holds the current content of the
\* source file; and for every tracked key with a version, last_hash is the
\* fingerprint of the content of the highest-numbered version.
C34_UnchangedMeansLatestIsSource ==
    \A k \in Keys :
       Tracked(k) =>
          /\ ReportsUnchanged(St, k) =>
                /\ Len(Scan(k)) >= 1
                /\ files[LatestPair(Scan(k))[2]] = files[RefIn(St, k).source_file]
          /\ Len(Scan(k)) >= 1 =>
                Cfg(k).last_hash = _compute_hash(files[LatestPair(Scan(k))[2]])

\* C34 amended: whenever sync(key, force = false) reports unchanged, the
\* source file has the fingerprint last_hash; a track, sync or
\* write_new_version of the key sets last_hash to the fingerprint of the
\* content of the version it creates, which is then the key's highest version
\* and the content of the source file; and no other call changes the
\* last_hash of a key that stays tracked, delete_latest included.
C34_LastHashIsLastCreatedContent ==
    [][/\ \A k \in Keys :
             (Tracked(k) /\ ReportsUnchanged(St, k)) =>
                _compute_hash(files[RefIn(St, k).source_file]) = Cfg(k).last_hash
       /\ Creating(res') =>
             /\ CfgIn(StNext, res'.key).last_hash = _compute_hash(res'.content)
             /\ files'[res'.path] = res'.content
             /\ files'[res'.ref.source_file] = res'.content
             /\ res'.version = Highest(ScanIn(StNext, res'.key))
             /\ ReportsUnchanged(StNext, res'.key)
       /\ \A k \in Keys :
             (/\ Tracked(k) /\ TrackedIn(StNext, k)
              /\ ~(Creating(res') /\ res'.key = k)
              /\ res'.op # "sync_all") =>
                CfgIn(StNext, k).last_hash = Cfg(k).last_hash
       /\ res'.op = "sync_all" =>
             \A i \in 1..Len(res'.results) :
                LET k == res'.results[i].key
                IN IF res'.results[i].changed
                   THEN CfgIn(StNext, k).last_hash
                           = _compute_hash(files[RefIn(St, k).source_file])
                   ELSE CfgIn(StNext, k).last_hash = Cfg(k).last_hash]_vars

\* C34 witness: delete_latest has removed the version that held the content
\* of the source file; sync(key, force = false) reports unchanged although
\* the latest remaining version holds another text
C34_Witness ==
    /\ res.op = "delete_latest"
    /\ res.status = "ok"
    /\ Len(Scan(res.key)) >= 1
    /\ ReportsUnchanged(St, res.key)
    /\ read_version(St, res.key, NoVersion).res.content # files[res.ref.source_file]
    /\ Cfg(res.key).last_hash # _compute_hash(files[LatestPair(Scan(res.key))[2]])

----------------------------------------------------------------------------
(* C35 - operations on one key and the other keys *)

\* the versions a scan finds for a key, with the content of each
Versions(st, key) ==
    {<<ScanIn(st, key)[i][1], st.files[ScanIn(st, key)[i][2]]>> :
        i \in 1..Len(ScanIn(st, key))}

\* C35: a track, sync, write_new_version, delete_latest, delete_all or
\* untrack of key k1 leaves, for every other tracked key k2, whatever the
\* version directories of the two keys, the metadata record of k2, the set of
\* versions a scan finds for k2 and the content of each of these versions
\* unchanged.
C35_OtherKeysUnaffected ==
    [][res'.op \in {"track", "sync", "write_new_version", "delete_latest",
                    "delete_all", "untrack"} =>
          \A k2 \in Keys \ {res'.key} :
             Tracked(k2) =>
                /\ TrackedIn(StNext, k2)
                /\ CfgIn(StNext, k2) = Cfg(k2)
                /\ Versions(StNext, k2) = Versions(St, k2)]_vars

----------------------------------------------------------------------------
(* C36 - keys that share a custom directory *)

\* the file name _version_path gives version n of key k in a custom directory
CustomName(k, n) == Name(_version_path(k, n, CustomDir, FALSE))

\* C36: the name <k>-<n>.md that _version_path gives version n of key k in a
\* custom directory is matched by the scan pattern of k, which reads the
\* number n from it, and by the pattern of no other key, also when one key is
\* a prefix of the other ("a" and "a-1") and when n has two digits; so with
\* keys sharing a custom directory the scan of k finds files named
\* <k>-<n>.md only, read_version returns their content, delete_latest,
\* delete_all and untrack remove no other file, and the directory stays.
C36_CustomNamesBelongToOneKey ==
    [][/\ \A k1 \in Keys, k2 \in Keys, n \in 1..(2 * MaxVersion) :
             /\ MatchesCustom(k1, CustomName(k2, n)) = (k1 = k2)
             /\ VersionOfName(k2, FALSE, CustomName(k2, n)) = n
       /\ \A k \in Keys :
             (Tracked(k) /\ ~RefIn(St, k).managed_by_root) =>
                \A i \in 1..Len(Scan(k)) :
                   LET n == Scan(k)[i][1]
                       path == Scan(k)[i][2]
                   IN /\ path = RefIn(St, k).version_dir \o <<CustomName(k, n)>>
                      /\ read_version(St, k, n).res.path = path
                      /\ read_version(St, k, n).res.content = files[path]
       /\ (Deleting(res') /\ res'.status = "ok" /\ ~res'.ref.managed_by_root) =>
             /\ \A p \in Touched :
                   /\ files'[p] = Absent
                   /\ Parent(p) = res'.ref.version_dir
                   /\ \E n \in 1..MaxVersion : Name(p) = CustomName(res'.key, n)
             /\ res'.ref.version_dir \in dirs'
             /\ \A k2 \in Keys \ {res'.key} :
                   Tracked(k2) => Versions(StNext, k2) = Versions(St, k2)]_vars

\* C36 witness: "a" and "a-1" were tracked with the same custom directory and
\* delete_all of one of them has removed its version; the version of the
\* other key and the directory are still there
C36_Witness ==
    /\ res.op = "delete_all"
    /\ res.status = "ok"
    /\ res.count >= 1
    /\ res.ref.version_dir = CustomDir
    /\ CustomDir \in dirs
    /\ \E k \in Keys \ {res.key} :
          /\ Tracked(k)
          /\ RefIn(St, k).version_dir = CustomDir
          /\ Len(Scan(k)) = 1
          /\ Exists(St, CustomDir \o <<CustomName(k, 1)>>)
    /\ ~Exists(St, CustomDir \o <<CustomName(res.key, 1)>>)

----------------------------------------------------------------------------
(* C37 - who writes the source file *)

\* the source files of the keys tracked in st
SourcesIn(st) == {RefIn(st, k).source_file : k \in {x \in Keys : TrackedIn(st, x)}}

\* C37: track, sync (forced or not), sync_all, read_version, list,
\* delete_latest, delete_all and untrack (keeping the versions or not) leave
\* the source file of every tracked key as it is: write_new_version is the
\* only operation that writes a source file.
C37_SourceWrittenOnlyByWrite ==
    [][res'.op \in {"track", "sync", "sync_all", "read_version", "list",
                    "delete_latest", "delete_all", "untrack"} =>
          \A f \in SourcesIn(St) \cup SourcesIn(StNext) : files'[f] = files[f]]_vars

----------------------------------------------------------------------------
(* C38 - a sync right after write_new_version *)

\* the outcome of sync(key, force = false) called in st
SyncAfter(st, key) == sync_from_source(st, key, FALSE, NoFault)

\* C38: after a successful write_new_version(key, content), called directly
\* or through update_prompt, a sync(key, force = false) called next returns
\* without an error, reports changed = false, creates no version and leaves
\* files, directories and metadata as they are: the content is not
\* snapshotted a second time.
C38_SyncAfterWriteIsUnchanged ==
    [][(res'.op = "write_new_version" /\ res'.status = "ok") =>
          /\ SyncAfter(StNext, res'.key).res.status = "ok"
          /\ ~SyncAfter(StNext, res'.key).res.changed
          /\ SyncAfter(StNext, res'.key).made = {}
          /\ SyncAfter(StNext, res'.key).st = StNext
          /\ files'[RefIn(StNext, res'.key).source_file] = res'.content
          /\ files'[res'.path] = res'.content]_vars

\* an update_prompt has just written a second version of its key, with a
\* content other than the one of the version before, and a sync called now
\* reports unchanged
C38_Witness ==
    /\ res.op = "write_new_version" /\ res.status = "ok" /\ res.service
    /\ Len(Scan(res.key)) >= 2
    /\ files[Scan(res.key)[Len(Scan(res.key)) - 1][2]] # res.content
    /\ ~SyncAfter(St, res.key).res.changed
    /\ SyncAfter(St, res.key).st = St

----------------------------------------------------------------------------
(* C31 - the round trip of the diff *)

\* the texts of the segments whose operation is in ops, one after the other
RECURSIVE Join(_, _)
Join(segments, ops) ==
    IF segments = <<>> THEN <<>>
    ELSE (IF Head(segments).op \in ops THEN Head(segments).text ELSE <<>>) \o
         Join(Tail(segments), ops)

\* C31: the segments diff_versions(key, v1, v2) returns, at word and at char
\* granularity (any other granularity is word), give the content of version
\* v1 when the texts of the equal and delete segments are concatenated, and
\* the content of version v2 when the texts of the equal and insert segments
\* are; every segment is one of the three operations.
C31_DiffRoundTrip ==
    (res.op = "diff" /\ res.status = "ok") =>
        /\ Join(res.segments, {"equal", "delete"}) = ContentOf(res.key, res.v1)
        /\ Join(res.segments, {"equal", "insert"}) = ContentOf(res.key, res.v2)
        /\ \A i \in 1..Len(res.segments) :
              res.segments[i].op \in {"equal", "insert", "delete"}

\* a word diff of two versions of different content has returned an equal, a
\* delete and an insert segment, and a separator is part of the equal text
C31_Witness ==
    /\ res.op = "diff" /\ res.status = "ok" /\ res.granularity = "word"
    /\ ContentOf(res.key, res.v1) # ContentOf(res.key, res.v2)
    /\ {res.segments[i].op : i \in 1..Len(res.segments)} = {"equal", "insert", "delete"}
    /\ \E i \in 1..Len(res.segments) :
          /\ res.segments[i].op = "equal"
          /\ \E j \in 1..Len(res.segments[i].text) : res.segments[i].text[j] \in Whitespace
    /\ Join(res.segments, {"equal", "delete"}) = ContentOf(res.key, res.v1)
    /\ Join(res.segments, {"equal", "insert"}) = ContentOf(res.key, res.v2)

----------------------------------------------------------------------------
(* C32, C33, C39 - the schema-1-to-2 migration *)

\* the directory a schema-1 layout keeps the versions of key in, and whether
\* its files carry the <n>.md names
LegacyDirOf(doc, key) ==
    IF HasKey(CustomDirsOf(doc), key)
    THEN _resolve_path(CfgOf(CustomDirsOf(doc), key).dir)
    ELSE _default_version_dir(key)

\* the (number, path) pairs of the version files of key in a schema-1 layout
LegacyVersions(st, key) ==
    IF HasKey(CustomDirsOf(st.meta), key)
    THEN _scan_custom_versions(st, key, LegacyDirOf(st.meta, key))
    ELSE _scan_default_versions(st, key, LegacyDirOf(st.meta, key))

\* a migration of an existing schema-1 document
MigratesLegacy == res'.op = "migrate" /\ meta.exists /\ meta.schema < _SCHEMA_VERSION

\* C32: after the migration of a schema-1 layout the document has schema 2
\* and a record for exactly the keys that have a version file; the record's
\* last_version is the highest version number of the key, a key that had no
\* source file has one with the content of its latest version, last_hash is
\* the fingerprint of the source file, the engine reads the document, and a
\* sync(key, force = false) called next reports unchanged.
C32_MigrationBuildsTheDocument ==
    [][MigratesLegacy =>
          /\ meta'.schema = _SCHEMA_VERSION
          /\ _load_meta(StNext).ok
          /\ \A k \in LegacyKeys :
                HasKey(meta'.prompts, k) <=> Len(LegacyVersions(St, k)) > 0
          /\ \A k \in LegacyKeys :
                HasKey(meta'.prompts, k) =>
                   LET cfg == CfgOf(meta'.prompts, k)
                       versions == LegacyVersions(St, k)
                       source_file == _resolve_path(cfg.source_file)
                   IN /\ cfg.last_version = versions[Len(versions)][1]
                      /\ \A i \in 1..Len(versions) : versions[i][1] <= cfg.last_version
                      /\ source_file = MigratedSource(k)
                      /\ _resolve_path(cfg.version_dir) = LegacyDirOf(meta, k)
                      /\ files[source_file] = Absent =>
                            files'[source_file] = files[versions[Len(versions)][2]]
                      /\ files[source_file] # Absent => files'[source_file] = files[source_file]
                      /\ cfg.last_hash = _compute_hash(files'[source_file])
                      /\ ReportsUnchanged(StNext, k)]_vars

\* C33: a migration of an existing schema-1 document leaves, at
\* .prompts/_meta.json.v1.bak, a copy of the document as it was before the
\* call; without a document the call migrates nothing, creates no backup and
\* changes nothing; a (from, to) pair other than (1, 2) raises ValueError and
\* changes neither a file, nor a directory, nor the document.
C33_BackupIsTheOldDocument ==
    [][/\ \A pair \in VersionPairs \ {<<1, 2>>} : \A order \in OrdersIn(St) :
             /\ migrate(St, pair[1], pair[2], order).res.status = "ValueError"
             /\ migrate(St, pair[1], pair[2], order).st = St
       /\ MigratesLegacy =>
             /\ files'[backup_path] = DocText(meta)
             /\ res'.path = backup_path
             /\ res'.status = "ok"
       /\ (res'.op = "migrate" /\ ~meta.exists) =>
             /\ StNext = St
             /\ files'[backup_path] = Absent
             /\ res'.count = 0
             /\ res'.path = NoPath]_vars

\* a migration has turned a schema-1 document with a custom directory into a
\* schema-2 document with two records, and the backup holds a schema-1
\* document that names the custom directory
C33_Witness ==
    /\ res.op = "migrate" /\ res.status = "ok" /\ res.count = 2
    /\ meta.exists /\ meta.schema = _SCHEMA_VERSION
    /\ files[backup_path] # Absent
    /\ files[backup_path][2].schema = _SCHEMA_VERSION - 1
    /\ Len(CustomDirsOf(files[backup_path][2])) = 1
    /\ files[backup_path] # DocText(meta)

\* C39: a migration called on a document that is at schema 2 already changes
\* no file, no directory and not the document: the source files, the version
\* files and the backup a first migration left stay as they were.
C39_SecondMigrationChangesNothing ==
    [][(res'.op = "migrate" /\ meta.exists /\ meta.schema >= _SCHEMA_VERSION) =>
          /\ files' = files
          /\ dirs' = dirs
          /\ meta' = meta]_vars

====
